---- MODULE Spec2Model ----
(***************************************************************************)
(* Model of package hdiutil: Config (validation, lazy option accessors)    *)
(* and Runner (the DMG build lifecycle driving a CommandExecutor).         *)
(*                                                                         *)
(* The sources hold two snapshots of the package.  ver = "typed" is the    *)
(* snapshot with the typed CommandExecutor and the argument-injection      *)
(* checks (part_017:1-480, part_018); ver = "generic" is the snapshot with *)
(* the generic Run/RunOutput executor, Checksum and ExcludePatterns        *)
(* (part_017:482-1034, config_test.go:778-1013).                           *)
(*                                                                         *)
(* A Go string is a sequence of one-character strings; NUL is the byte 0.  *)
(***************************************************************************)
EXTENDS Integers, Sequences, FiniteSets, TLC

VARIABLES
    ver,      \* which snapshot of the package runs
    cfg,      \* the exported data fields of Config
    valid,    \* Config.valid
    optFns,   \* TRUE once Validate has installed the four OptFn fields
    r,        \* the Runner's own fields
    dirs,     \* temporary directories that exist on disk
    made,     \* number of temporary directories MkdirTemp has created
    calls,    \* invocations received by the injected CommandExecutor
    op,       \* the method called last
    ret,      \* what it returned: [err, panic, val, msg]
    vhist,    \* [err: result of the most recent Validate or "never",
              \*  dirty: a field was assigned since]
    setup,    \* [last: how the most recent Setup ended, "never" before the
              \*  first; ever: some Setup has returned nil]
    nops,     \* number of Runner methods called so far
    dl,       \* a dirList of package dirlist: [lst, src]
    sq,       \* an intSequence of package seq, its producer goroutine and
              \* the items its consumer has received
    bk        \* the backup registry: the Backups in memory and the files
              \* of the configuration directory

vars == <<ver, cfg, valid, optFns, r, dirs, made, calls, op, ret, vhist, setup, nops, dl, sq, bk>>

----------------------------------------------------------------------------
(* Bounds *)

MaxOps == 3
MaxDirs == 2
MaxList == 3
MaxBaks == 3
IntBits == 5

----------------------------------------------------------------------------
(* Go strings *)

NUL == "\\0"

Lower == <<"a","b","c","d","e","f","g","h","i","j","k","l","m",
           "n","o","p","q","r","s","t","u","v","w","x","y","z">>
Upper == <<"A","B","C","D","E","F","G","H","I","J","K","L","M",
           "N","O","P","Q","R","S","T","U","V","W","X","Y","Z">>

UpperRune(c) ==
    IF \E i \in 1..26 : Lower[i] = c
    THEN Upper[CHOOSE i \in 1..26 : Lower[i] = c]
    ELSE c

ToUpper(s) == [i \in 1..Len(s) |-> UpperRune(s[i])]

ContainsRune(s, c) == \E i \in 1..Len(s) : s[i] = c

HasPrefix(s, p) == Len(s) >= Len(p) /\ SubSeq(s, 1, Len(p)) = p

HasSuffix(s, p) == Len(s) >= Len(p) /\ SubSeq(s, Len(s) - Len(p) + 1, Len(s)) = p

TrimSuffix(s, p) == IF HasSuffix(s, p) THEN SubSeq(s, 1, Len(s) - Len(p)) ELSE s

Digit(d) == <<"0","1","2","3","4","5","6","7","8","9">>[d + 1]

RECURSIVE Itoa(_)
Itoa(n) ==
    IF n < 0 THEN <<"-">> \o Itoa(0 - n)
    ELSE IF n < 10 THEN <<Digit(n)>>
    ELSE Itoa(n \div 10) \o <<Digit(n % 10)>>

----------------------------------------------------------------------------
(* path/filepath on a Unix host *)

\* the elements of path between separators, empty ones included
RECURSIVE SplitSep(_)
SplitSep(p) ==
    IF ~ContainsRune(p, "/") THEN <<p>>
    ELSE LET i == CHOOSE k \in 1..Len(p) :
                       p[k] = "/" /\ \A j \in 1..(k - 1) : p[j] # "/"
         IN <<SubSeq(p, 1, i - 1)>> \o SplitSep(SubSeq(p, i + 1, Len(p)))

RECURSIVE JoinSep(_)
JoinSep(elems) ==
    IF Len(elems) = 0 THEN <<>>
    ELSE IF Len(elems) = 1 THEN elems[1]
    ELSE elems[1] \o <<"/">> \o JoinSep(Tail(elems))

DotDot == <<".", ".">>

\* the lexical processing of filepath.Clean, element by element
RECURSIVE CleanElems(_, _, _)
CleanElems(elems, out, rooted) ==
    IF Len(elems) = 0 THEN out
    ELSE LET e == Head(elems)
             rest == Tail(elems)
         IN IF e = <<>> \/ e = <<".">> THEN CleanElems(rest, out, rooted)
            ELSE IF e = DotDot
                 THEN IF Len(out) > 0 /\ out[Len(out)] # DotDot
                      THEN CleanElems(rest, SubSeq(out, 1, Len(out) - 1), rooted)
                      ELSE IF rooted THEN CleanElems(rest, out, rooted)
                      ELSE CleanElems(rest, Append(out, e), rooted)
            ELSE CleanElems(rest, Append(out, e), rooted)

Clean(path) ==
    IF path = <<>> THEN <<".">>
    ELSE LET rooted == path[1] = "/"
             body == JoinSep(CleanElems(SplitSep(path), <<>>, rooted))
             res == IF rooted THEN <<"/">> \o body ELSE body
         IN IF res = <<>> THEN <<".">> ELSE res

\* filepath.Join of two elements
Join(a, b) ==
    IF a = <<>> /\ b = <<>> THEN <<>>
    ELSE IF a = <<>> THEN Clean(b)
    ELSE IF b = <<>> THEN Clean(a)
    ELSE Clean(a \o <<"/">> \o b)

\* filepath.Ext: from the last dot of the last element
Ext(path) ==
    LET dots == {i \in 1..Len(path) :
                    /\ path[i] = "."
                    /\ \A j \in i..Len(path) : path[j] # "/"}
    IN IF dots = {} THEN <<>>
       ELSE LET i == CHOOSE k \in dots : \A m \in dots : m <= k
            IN SubSeq(path, i, Len(path))

RECURSIVE StripTrailingSep(_)
StripTrailingSep(p) ==
    IF Len(p) > 0 /\ p[Len(p)] = "/" THEN StripTrailingSep(SubSeq(p, 1, Len(p) - 1))
    ELSE p

\* filepath.Base
Base(path) ==
    IF path = <<>> THEN <<".">>
    ELSE LET p == StripTrailingSep(path)
             elems == SplitSep(p)
             last == elems[Len(elems)]
         IN IF p = <<>> THEN <<"/">> ELSE last

----------------------------------------------------------------------------
(* Config: derived options *)

\* the string literals of Config, each a sequence of characters
Opt ==
    [HFS |-> <<"H","F","S","+">>,
     APFS |-> <<"A","P","F","S">>,
     UDZO |-> <<"U","D","Z","O">>,
     UDBZ |-> <<"U","D","B","Z">>,
     ULFO |-> <<"U","L","F","O">>,
     ULMO |-> <<"U","L","M","O">>,
     DotDmg |-> <<".","d","m","g">>,
     Fs |-> <<"-","f","s">>,
     Fsargs |-> <<"-","f","s","a","r","g","s">>,
     FsargsVal |-> <<"-","c"," ","c","=","6","4",",","a","=","1","6",",","e","=","1","6">>,
     Format |-> <<"-","f","o","r","m","a","t">>,
     Imagekey |-> <<"-","i","m","a","g","e","k","e","y">>,
     Zlib9 |-> <<"z","l","i","b","-","l","e","v","e","l","=","9">>,
     Bzip9 |-> <<"b","z","i","p","2","-","l","e","v","e","l","=","9">>,
     Size |-> <<"-","s","i","z","e">>]

\* the checksum algorithms Validate accepts
Sum ==
    [SHA256 |-> <<"S","H","A","2","5","6">>,
     SHA512 |-> <<"S","H","A","5","1","2">>]

filesystemToOpts(c) ==
    LET fs == ToUpper(c.FileSystem)
    IN IF fs = <<>> \/ fs = Opt.HFS THEN <<Opt.Fs, Opt.HFS, Opt.Fsargs, Opt.FsargsVal>>
       ELSE IF fs = Opt.APFS THEN <<Opt.Fs, Opt.APFS>>
       ELSE <<>>

\* imageFormatToOpts that hands ULFO and ULMO on as the caller wrote them
imageFormatToOpts_AsGiven(c) ==
    LET format == ToUpper(c.ImageFormat)
    IN IF format = <<>> \/ format = Opt.UDZO THEN <<Opt.Format, Opt.UDZO, Opt.Imagekey, Opt.Zlib9>>
       ELSE IF format = Opt.UDBZ THEN <<Opt.Format, Opt.UDBZ, Opt.Imagekey, Opt.Bzip9>>
       ELSE IF format = Opt.ULFO \/ format = Opt.ULMO THEN <<Opt.Format, c.ImageFormat>>
       ELSE <<>>

imageFormatToOpts(c) ==
    LET format == ToUpper(c.ImageFormat)
    IN IF format = <<>> \/ format = Opt.UDZO THEN <<Opt.Format, Opt.UDZO, Opt.Imagekey, Opt.Zlib9>>
       ELSE IF format = Opt.UDBZ THEN <<Opt.Format, Opt.UDBZ, Opt.Imagekey, Opt.Bzip9>>
       ELSE IF format = Opt.ULFO \/ format = Opt.ULMO THEN <<Opt.Format, format>>
       ELSE <<>>

volumeSizeToOpts(c) ==
    IF c.VolumeSizeMb > 0 THEN <<Opt.Size, Itoa(c.VolumeSizeMb) \o <<"m">>>>
    ELSE <<>>

volumeNameToOpt(c) ==
    IF Len(c.VolumeName) = 0 THEN TrimSuffix(Base(c.OutputPath), Opt.DotDmg)
    ELSE c.VolumeName

----------------------------------------------------------------------------
(* Config.Validate *)

\* the null-byte scan and the leading-dash guard of the typed snapshot
unsafeArg(c) ==
    \/ \E f \in {"SourceDir", "OutputPath", "VolumeName", "SigningIdentity",
                 "NotarizeCredentials", "FileSystem", "ImageFormat"} :
           ContainsRune(c[f], NUL)
    \/ c.SourceDir # <<>> /\ HasPrefix(Clean(c.SourceDir), <<"-">>)
    \/ c.OutputPath # <<>> /\ HasPrefix(Clean(c.OutputPath), <<"-">>)

\* the checks both snapshots share, in the order of the code
commonChecks(c) ==
    IF Len(c.SourceDir) = 0 THEN "ErrInvSourceDir"
    ELSE IF c.VolumeSizeMb < 0 THEN "ErrVolumeSize"
    ELSE IF Ext(c.OutputPath) # Opt.DotDmg THEN "ErrImageFileExt"
    ELSE IF Len(imageFormatToOpts(c)) = 0 THEN "ErrInvFormatOpt"
    ELSE IF Len(filesystemToOpts(c)) = 0 THEN "ErrInvFilesystemOpt"
    ELSE IF c.SandboxSafe /\ ToUpper(c.FileSystem) = Opt.APFS THEN "ErrSandboxAPFS"
    ELSE "nil"

checksumCheck(c) ==
    IF c.Checksum # <<>> /\ ToUpper(c.Checksum) \notin {Sum.SHA256, Sum.SHA512}
    THEN "ErrInvChecksumAlgo"
    ELSE "nil"

\* the error Validate returns ("nil" for none)
ValidateTyped(c) ==
    IF unsafeArg(c) THEN "ErrUnsafeArg" ELSE commonChecks(c)

ValidateGeneric(c) ==
    IF commonChecks(c) # "nil" THEN commonChecks(c) ELSE checksumCheck(c)

ValidateErr(v, c) == IF v = "typed" THEN ValidateTyped(c) ELSE ValidateGeneric(c)

\* a call of one of the four OptFn fields: a nil function value or a Config
\* that is not valid panics, otherwise the wrapped function reads the fields
OptFnNames == {"FilesystemOpts", "ImageFormatOpts", "VolumeSizeOpts", "VolumeNameOpt"}

wrapped(fn, c) ==
    CASE fn = "FilesystemOpts" -> filesystemToOpts(c)
      [] fn = "ImageFormatOpts" -> imageFormatToOpts(c)
      [] fn = "VolumeSizeOpts" -> volumeSizeToOpts(c)
      [] fn = "VolumeNameOpt" -> volumeNameToOpt(c)

Returned(e) == [err |-> e, panic |-> FALSE, val |-> <<>>, msg |-> <<>>]
Value(x) == [err |-> "nil", panic |-> FALSE, val |-> x, msg |-> <<>>]
Panic == [err |-> "nil", panic |-> TRUE, val |-> <<>>, msg |-> <<>>]

validWrapper(fn, c, installed, isValid) ==
    IF ~installed \/ ~isValid THEN Panic ELSE Value(wrapped(fn, c))

----------------------------------------------------------------------------
(* Inputs *)

\* the field values the specifications draw from
In ==
    [Src |-> <<"s","r","c">>,
     DashSrc |-> <<".","/","-","x">>,
     NulSrc |-> <<"a", NUL>>,
     MyAppDmg |-> <<"M","y","A","p","p",".","d","m","g">>,
     UpperExt |-> <<"x",".","D","M","G">>,
     DashOut |-> <<".","/","-","o",".","d","m","g">>,
     DirDmg |-> <<"d","/",".","d","m","g">>,
     NulOut |-> <<"o", NUL, ".","d","m","g">>,
     Vol |-> <<"V","o","l">>,
     NulVol |-> <<"V", NUL>>,
     HfsLower |-> <<"h","f","s","+">>,
     ApfsMixed |-> <<"A","p","f","s">>,
     Ext4 |-> <<"E","X","T","4">>,
     NulFs |-> <<"a", NUL>>,
     NulFormat |-> <<"U", NUL>>,
     UdbzLower |-> <<"u","d","b","z">>,
     UlmoLower |-> <<"u","l","m","o">>,
     Iso |-> <<"I","S","O">>,
     Sha256Lower |-> <<"s","h","a","2","5","6">>,
     Md5 |-> <<"M","D","5">>,
     Identity |-> <<"i","d">>,
     NulIdentity |-> <<"i", NUL>>,
     Profile |-> <<"p","r","o","f">>,
     NulProfile |-> <<"p", NUL>>,
     TmpPattern |-> <<"*",".","t","m","p">>,
     NewVolume |-> <<"N","e","w","V","o","l","u","m","e">>,
     OneMount |-> <<"d","\t","/","V","o","l","u","m","e","s","/","T"," ","\n">>,
     NoMount |-> <<"e","\n">>,
     TwoLines |-> <<"x","\n"," ","/","V","o","l","u","m","e","s","/","A","\r","\n",
                    "/","V","o","l","u","m","e","s","/","B","\n">>,
     TwoOnLine |-> <<"/","V","o","l","u","m","e","s","/","A"," ","/","V","o","l","u","m","e","s","/","B">>,
     BareVolumes |-> <<"\"","/","V","o","l","u","m","e","s","/","\t">>,
     VolumesNoSlash |-> <<"/","V","o","l","u","m","e","s","\n">>,
     BadByte |-> "\\xff",
     RuneError |-> "\\ufffd",
     Escaped |-> <<"a","\"","\\","<","&",">","\n","\t", NUL, "/">>,
     BadVol |-> <<"V", "\\xff", "\\ufffd">>,
     DsStore |-> <<".","D","S">>]

\* the zero Config with the two required fields set
BaseConfig ==
    [SourceDir |-> In.Src, OutputPath |-> In.MyAppDmg, VolumeName |-> <<>>,
     VolumeSizeMb |-> 0, SandboxSafe |-> FALSE, Bless |-> FALSE,
     FileSystem |-> <<>>, SigningIdentity |-> <<>>, NotarizeCredentials |-> <<>>,
     ImageFormat |-> <<>>, HDIUtilVerbosity |-> 0, Simulate |-> FALSE,
     Checksum |-> <<>>, ExcludePatterns |-> <<>>]

Versions == {"typed", "generic"}

\* the typed snapshot's Config has neither Checksum nor ExcludePatterns
FieldsOf(v, c) == v = "typed" => c.Checksum = <<>> /\ c.ExcludePatterns = <<>>

\* the Runner before Setup: every field has its zero value
NewRunner ==
    [formatOpts |-> <<>>, sizeOpts |-> <<>>, fsOpts |-> <<>>, volNameOpt |-> <<>>,
     signOpt |-> <<>>, notarizeOpt |-> <<>>, srcDir |-> <<>>, tmpDir |-> <<>>,
     mountDir |-> <<>>, tmpDmg |-> <<>>, finalDmg |-> <<>>, permFixed |-> FALSE,
     cleanupFuncs |-> <<>>]

InitRest ==
    /\ valid = FALSE
    /\ optFns = FALSE
    /\ r = NewRunner
    /\ dirs = {}
    /\ made = 0
    /\ calls = <<>>
    /\ op = "New"
    /\ ret = Returned("nil")
    /\ vhist = [err |-> "never", dirty |-> FALSE]
    /\ setup = [last |-> "never", ever |-> FALSE]
    /\ nops = 0
    /\ dl = [lst |-> <<>>, src |-> <<>>]
    /\ sq = [pc |-> "none"]
    /\ bk = [pkg |-> "none"]

----------------------------------------------------------------------------
(* Config operations *)

\* Validate without the reset of valid on entry
Validate_NoReset ==
    LET e == ValidateErr(ver, cfg)
    IN /\ valid' = (valid \/ e = "nil")
       /\ optFns' = (optFns \/ e = "nil")
       /\ ret' = Returned(e)
       /\ vhist' = [err |-> e, dirty |-> FALSE]
       /\ op' = "Validate"
       /\ UNCHANGED <<sq, bk, dl, ver, cfg, r, dirs, made, calls, setup, nops>>

\* Validate that trusts an earlier success instead of checking again
Validate_Cached ==
    LET e == IF valid THEN "nil" ELSE ValidateErr(ver, cfg)
    IN /\ valid' = (e = "nil")
       /\ optFns' = (optFns \/ e = "nil")
       /\ ret' = Returned(e)
       /\ vhist' = [err |-> e, dirty |-> FALSE]
       /\ op' = "Validate"
       /\ UNCHANGED <<sq, bk, dl, ver, cfg, r, dirs, made, calls, setup, nops>>

\* Config.Validate: clears valid, runs the checks, and on success sets valid
\* and installs the four wrappers
Validate ==
    LET e == ValidateErr(ver, cfg)
    IN /\ valid' = (e = "nil")
       /\ optFns' = (optFns \/ e = "nil")
       /\ ret' = Returned(e)
       /\ vhist' = [err |-> e, dirty |-> FALSE]
       /\ op' = "Validate"
       /\ UNCHANGED <<sq, bk, dl, ver, cfg, r, dirs, made, calls, setup, nops>>

\* a caller invokes one of the OptFn fields
CallOptFn(fn) ==
    /\ ret' = validWrapper(fn, cfg, optFns, valid)
    /\ op' = fn
    /\ UNCHANGED <<sq, bk, dl, ver, cfg, valid, optFns, r, dirs, made, calls, vhist, setup, nops>>

\* a caller assigns an exported field
SetField(f, v) ==
    /\ cfg[f] # v
    /\ cfg' = [cfg EXCEPT ![f] = v]
    /\ FieldsOf(ver, cfg')
    /\ vhist' = [vhist EXCEPT !.dirty = TRUE]
    /\ op' = "SetField"
    /\ ret' = Returned("nil")
    /\ UNCHANGED <<sq, bk, dl, ver, valid, optFns, r, dirs, made, calls, setup, nops>>

(* Validate and the accessors over a wide range of field values *)

TextFields == {"SourceDir", "OutputPath", "VolumeName", "SigningIdentity",
               "NotarizeCredentials", "FileSystem", "ImageFormat"}

\* every combination of the values below with at most one null byte in it
ValidateInputs ==
    {c \in [SourceDir : {<<>>, In.Src, In.DashSrc, In.NulSrc},
            OutputPath : {In.MyAppDmg, In.UpperExt, In.DashOut, In.DirDmg, In.NulOut},
            VolumeName : {<<>>, In.Vol, In.NulVol},
            VolumeSizeMb : {-1, 0, 100},
            SandboxSafe : BOOLEAN,
            Bless : {FALSE},
            FileSystem : {<<>>, In.HfsLower, In.ApfsMixed, In.Ext4, In.NulFs},
            SigningIdentity : {<<>>, In.NulIdentity},
            NotarizeCredentials : {<<>>, In.NulProfile},
            ImageFormat : {<<>>, In.UdbzLower, Opt.ULFO, In.UlmoLower, In.Iso, In.NulFormat},
            HDIUtilVerbosity : {0},
            Simulate : {FALSE},
            Checksum : {<<>>, In.Sha256Lower, In.Md5},
            ExcludePatterns : {<<>>}] :
        Cardinality({f \in TextFields : ContainsRune(c[f], NUL)}) <= 1}

InitValidate ==
    /\ ver \in Versions
    /\ cfg \in ValidateInputs
    /\ FieldsOf(ver, cfg)
    /\ InitRest

NextValidate ==
    \/ Validate
    \/ \E fn \in OptFnNames : CallOptFn(fn)

SpecValidate == InitValidate /\ [][NextValidate]_vars

(* Validate, field assignments and the accessors interleaved *)

ConfigInputs ==
    {c \in [SourceDir : {<<>>, In.Src},
            OutputPath : {In.MyAppDmg, In.UpperExt},
            VolumeName : {<<>>, In.Vol},
            VolumeSizeMb : {-1, 0, 100},
            SandboxSafe : BOOLEAN,
            Bless : {FALSE},
            FileSystem : {<<>>, Opt.APFS, In.Ext4},
            SigningIdentity : {<<>>},
            NotarizeCredentials : {<<>>},
            ImageFormat : {<<>>, Opt.ULFO, In.Iso},
            HDIUtilVerbosity : {0},
            Simulate : {FALSE},
            Checksum : {<<>>, In.Md5},
            ExcludePatterns : {<<>>}] : TRUE}

\* the values a caller assigns to field f
FieldValues(f) ==
    {c[f] : c \in ConfigInputs} \cup (IF f = "VolumeName" THEN {In.NewVolume} ELSE {})

InitConfig ==
    /\ ver \in Versions
    /\ cfg \in ConfigInputs
    /\ FieldsOf(ver, cfg)
    /\ InitRest

NextConfig ==
    \/ Validate
    \/ \E fn \in OptFnNames : CallOptFn(fn)
    \/ \E f \in DOMAIN BaseConfig : \E v \in FieldValues(f) : SetField(f, v)

SpecConfig == InitConfig /\ [][NextConfig]_vars

----------------------------------------------------------------------------
(* Runner: literals of the sources *)

\* command names, subcommands, flags and path elements
Cmd ==
    [UDRW |-> <<"U","D","R","W">>,
     Hdiutil |-> <<"h","d","i","u","t","i","l">>,
     Codesign |-> <<"c","o","d","e","s","i","g","n">>,
     Xcrun |-> <<"x","c","r","u","n">>,
     Chmod |-> <<"c","h","m","o","d">>,
     Bless |-> <<"b","l","e","s","s">>,
     Create |-> <<"c","r","e","a","t","e">>,
     Volname |-> <<"-","v","o","l","n","a","m","e">>,
     Srcfolder |-> <<"-","s","r","c","f","o","l","d","e","r">>,
     Makehybrid |-> <<"m","a","k","e","h","y","b","r","i","d">>,
     DefaultVolumeName |-> <<"-","d","e","f","a","u","l","t","-","v","o","l","u","m","e","-","n","a","m","e">>,
     HfsFlag |-> <<"-","h","f","s">>,
     R |-> <<"-","r">>,
     Convert |-> <<"c","o","n","v","e","r","t">>,
     Ov |-> <<"-","o","v">>,
     O |-> <<"-","o">>,
     Attach |-> <<"a","t","t","a","c","h">>,
     Nobrowse |-> <<"-","n","o","b","r","o","w","s","e">>,
     Noverify |-> <<"-","n","o","v","e","r","i","f","y">>,
     Detach |-> <<"d","e","t","a","c","h">>,
     Rf |-> <<"-","R","f">>,
     GoW |-> <<"g","o","-","w">>,
     Folder |-> <<"-","-","f","o","l","d","e","r">>,
     S |-> <<"-","s">>,
     Verify |-> <<"-","-","v","e","r","i","f","y">>,
     Deep |-> <<"-","-","d","e","e","p">>,
     Strict |-> <<"-","-","s","t","r","i","c","t">>,
     Verbose2 |-> <<"-","-","v","e","r","b","o","s","e","=","2">>,
     Notarytool |-> <<"n","o","t","a","r","y","t","o","o","l">>,
     Submit |-> <<"s","u","b","m","i","t">>,
     KeychainProfile |-> <<"-","-","k","e","y","c","h","a","i","n","-","p","r","o","f","i","l","e">>,
     Stapler |-> <<"s","t","a","p","l","e","r">>,
     Staple |-> <<"s","t","a","p","l","e">>,
     Quiet |-> <<"-","q","u","i","e","t">>,
     Verbose |-> <<"-","v","e","r","b","o","s","e">>,
     Debug |-> <<"-","d","e","b","u","g">>,
     TempDmg |-> <<"t","e","m","p",".","d","m","g">>,
     Staging |-> <<"s","t","a","g","i","n","g">>,
     SimulatedMount |-> <<"S","I","M","U","L","A","T","E","D","_","M","O","U","N","T">>,
     Volumes |-> <<"/","V","o","l","u","m","e","s","/">>,
     MkdmgPrefix |-> <<"/","t","m","p","/","m","k","d","m","g","-">>]

\* the texts of the error values (those of os and os/exec shortened)
Msg ==
    [ErrMountImage |-> <<"c","o","u","l","d","n","'","t"," ","a","t","t","a","c","h"," ","d","i","s","k"," ","i","m","a","g","e">>,
     ErrCodesignFailed |-> <<"c","o","d","e","s","i","g","n"," ","c","o","m","m","a","n","d"," ","f","a","i","l","e","d">>,
     ErrNotarizeFailed |-> <<"n","o","t","a","r","i","z","a","t","i","o","n"," ","f","a","i","l","e","d">>,
     ErrCreateDir |-> <<"c","o","u","l","d","n","'","t"," ","c","r","e","a","t","e"," ","d","i","r","e","c","t","o","r","y">>,
     ErrExcludeCopy |-> <<"f","a","i","l","e","d"," ","t","o"," ","c","o","p","y"," ","f","i","l","e","s"," ","w","i","t","h"," ","e","x","c","l","u","s","i","o","n","s">>,
     MountNotFound |-> <<"c","o","u","l","d","n","'","t"," ","f","i","n","d"," ","m","o","u","n","t"," ","p","o","i","n","t",":"," ">>,
     ChmodFailed |-> <<"c","h","m","o","d"," ","f","a","i","l","e","d",":"," ">>,
     CodesignCmdFailed |-> <<"c","o","d","e","s","i","g","n"," ","c","o","m","m","a","n","d"," ","f","a","i","l","e","d",":"," ">>,
     SignatureInvalid |-> <<"t","h","e"," ","s","i","g","n","a","t","u","r","e"," ","s","e","e","m","s"," ","i","n","v","a","l","i","d",":"," ">>,
     NotarizationFailed |-> <<"n","o","t","a","r","i","z","a","t","i","o","n"," ","f","a","i","l","e","d",":"," ">>,
     StaplerFailed |-> <<"s","t","a","p","l","e","r"," ","f","a","i","l","e","d",":"," ">>,
     OutputOpen |-> <<" ","(","o","u","t","p","u","t",":"," ">>,
     ExitStatus |-> <<"e","x","i","t"," ","s","t","a","t","u","s"," ","1">>,
     ErrNeedInit |-> <<"r","u","n","n","e","r"," ","n","o","t"," ","p","r","o","p","e","r","l","y"," ","i","n","i","t","i","a","l","i","z","e","d",","," ","c","a","l","l"," ","S","e","t","u","p","(",")"," ","f","i","r","s","t">>,
     PermissionDenied |-> <<"p","e","r","m","i","s","s","i","o","n"," ","d","e","n","i","e","d">>,
     NoSuchFile |-> <<"n","o"," ","s","u","c","h"," ","f","i","l","e"," ","o","r"," ","d","i","r","e","c","t","o","r","y">>,
     Colon |-> <<":"," ">>]

----------------------------------------------------------------------------
(* Runner: helpers *)

\* strings.Index, 1-based; 0 when sub does not occur
Index(s, sub) ==
    LET at == {i \in 1..(Len(s) - Len(sub) + 1) : SubSeq(s, i, i + Len(sub) - 1) = sub}
    IN IF at = {} THEN 0 ELSE CHOOSE i \in at : \A j \in at : i <= j

\* strings.Split(s, "\n")
RECURSIVE SplitLines(_)
SplitLines(s) ==
    LET i == Index(s, <<"\n">>)
    IN IF i = 0 THEN <<s>>
       ELSE <<SubSeq(s, 1, i - 1)>> \o SplitLines(SubSeq(s, i + 1, Len(s)))

IsSpace(c) == c \in {" ", "\t", "\n", "\r"}

RECURSIVE TrimLeft(_)
TrimLeft(s) == IF Len(s) > 0 /\ IsSpace(s[1]) THEN TrimLeft(Tail(s)) ELSE s

RECURSIVE TrimRight(_)
TrimRight(s) ==
    IF Len(s) > 0 /\ IsSpace(s[Len(s)]) THEN TrimRight(SubSeq(s, 1, Len(s) - 1)) ELSE s

TrimSpace(s) == TrimLeft(TrimRight(s))

\* the %q verb: the string quoted with its control characters escaped
RECURSIVE QuoteBody(_)
QuoteBody(s) ==
    IF Len(s) = 0 THEN <<>>
    ELSE (CASE s[1] = "\n" -> <<"\\", "n">>
            [] s[1] = "\t" -> <<"\\", "t">>
            [] s[1] = "\r" -> <<"\\", "r">>
            [] s[1] = "\"" -> <<"\\", "\"">>
            [] s[1] = "\\" -> <<"\\", "\\">>
            [] OTHER -> <<s[1]>>) \o QuoteBody(Tail(s))

Quote(s) == <<"\"">> \o QuoteBody(s) \o <<"\"">>

\* slices.Insert(args, i, val), i counted from 0
Insert(args, i, val) == SubSeq(args, 1, i) \o <<val>> \o SubSeq(args, i + 1, Len(args))

\* an error value: its sentinel for errors.Is and its text
Err(kind, msg) == [err |-> kind, panic |-> FALSE, val |-> <<>>, msg |-> msg]
Nil == Err("nil", <<>>)

\* the error an external command that fails comes back with
ExecErr == Err("ExitError", Msg.ExitStatus)

\* os.MkdirTemp("", "mkdmg-"): the n-th directory it makes
TmpName(n) == Cmd.MkdmgPrefix \o Itoa(n)

\* runCommand without the simulate check
runCommand_Unsimulated(c, cs, name, args, ok) ==
    [calls |-> Append(cs, [name |-> name, args |-> args, ok |-> ok, out |-> <<>>]),
     ret |-> IF ok THEN Nil ELSE ExecErr, out |-> <<>>]

\* The executor receives (name, args) and answers with the outcome chosen for
\* this invocation; in simulate mode the command is logged and nothing
\* reaches the executor.  The result is the executor's log (each entry with
\* the outcome and the output the executor gave) and the error.
runCommand(c, cs, name, args, ok) ==
    IF c.Simulate THEN [calls |-> cs, ret |-> Nil, out |-> <<>>]
    ELSE [calls |-> Append(cs, [name |-> name, args |-> args, ok |-> ok, out |-> <<>>]),
          ret |-> IF ok THEN Nil ELSE ExecErr, out |-> <<>>]

runCommandOutput(c, cs, name, args, ok, output) ==
    IF c.Simulate THEN [calls |-> cs, ret |-> Nil, out |-> <<>>]
    ELSE [calls |-> Append(cs, [name |-> name, args |-> args, ok |-> ok, out |-> output]),
          ret |-> IF ok THEN Nil ELSE ExecErr, out |-> output]

setHdiutilVerbosity(v, c, args) ==
    IF Len(args) = 0
       \/ (v = "typed" /\ c.HDIUtilVerbosity <= 0)
       \/ (v = "generic" /\ c.HDIUtilVerbosity = 0)
    THEN args
    ELSE LET val == IF c.HDIUtilVerbosity = 1 THEN Cmd.Quiet
                    ELSE IF c.HDIUtilVerbosity = 2 THEN Cmd.Verbose
                    ELSE Cmd.Debug
         IN IF args[1] \in {Cmd.Create, Cmd.Makehybrid, Cmd.Convert}
            THEN Insert(args, 1, val)
            ELSE Insert(args, 0, val)

----------------------------------------------------------------------------
(* Runner: the lifecycle methods.  Each takes the snapshot v, the Config c,  *)
(* the Runner rr, the executor's log cs and the outcomes the executor gives  *)
(* to the invocations it receives, and yields the Runner, the log and the    *)
(* returned error.                                                           *)

Result(rr, x) == [r |-> rr, calls |-> x.calls, ret |-> x.ret]

createTempImage(v, c, rr, cs, ok) ==
    LET args == <<Cmd.Create>> \o rr.fsOpts \o rr.sizeOpts
                \o <<Opt.Format, Cmd.UDRW, Cmd.Volname, rr.volNameOpt, Cmd.Srcfolder, rr.srcDir, rr.tmpDmg>>
    IN Result(rr, runCommand(c, cs, Cmd.Hdiutil, setHdiutilVerbosity(v, c, args), ok))

\* createTempImageSandboxSafe that converts whatever makehybrid returned
createTempImageSandboxSafe_Unchecked(v, c, rr, cs, ok1, ok2) ==
    LET args1 == setHdiutilVerbosity(v, c,
                     <<Cmd.Makehybrid, Cmd.DefaultVolumeName, rr.volNameOpt, Cmd.HfsFlag, Cmd.R,
                       rr.tmpDmg, rr.srcDir>>)
        x1 == runCommand(c, cs, Cmd.Hdiutil, args1, ok1)
        args2 == setHdiutilVerbosity(v, c,
                     <<Cmd.Convert, rr.tmpDmg, Opt.Format, Cmd.UDRW, Cmd.Ov, Cmd.O, rr.tmpDmg>>)
    IN Result(rr, runCommand(c, x1.calls, Cmd.Hdiutil, args2, ok2))

createTempImageSandboxSafe(v, c, rr, cs, ok1, ok2) ==
    LET args1 == setHdiutilVerbosity(v, c,
                     <<Cmd.Makehybrid, Cmd.DefaultVolumeName, rr.volNameOpt, Cmd.HfsFlag, Cmd.R,
                       rr.tmpDmg, rr.srcDir>>)
        x1 == runCommand(c, cs, Cmd.Hdiutil, args1, ok1)
        args2 == setHdiutilVerbosity(v, c,
                     <<Cmd.Convert, rr.tmpDmg, Opt.Format, Cmd.UDRW, Cmd.Ov, Cmd.O, rr.tmpDmg>>)
    IN IF x1.ret.err # "nil" THEN Result(rr, x1)
       ELSE Result(rr, runCommand(c, x1.calls, Cmd.Hdiutil, args2, ok2))

\* Start without the ErrNeedInit guard
RunnerStart_NoGuard(v, c, rr, cs, ok1, ok2) ==
    IF c.SandboxSafe THEN createTempImageSandboxSafe(v, c, rr, cs, ok1, ok2)
    ELSE createTempImage(v, c, rr, cs, ok1)

RunnerStart(v, c, rr, cs, ok1, ok2) ==
    IF rr.tmpDir = <<>> \/ rr.tmpDmg = <<>>
    THEN [r |-> rr, calls |-> cs, ret |-> Err("ErrNeedInit", Msg.ErrNeedInit)]
    ELSE IF c.SandboxSafe THEN createTempImageSandboxSafe(v, c, rr, cs, ok1, ok2)
    ELSE createTempImage(v, c, rr, cs, ok1)

\* mountPoint that keeps the whole line the mount point is on
RECURSIVE mountPoint_WholeLine(_)
mountPoint_WholeLine(lines) ==
    IF Len(lines) = 0 THEN <<>>
    ELSE LET idx == Index(Head(lines), Cmd.Volumes)
         IN IF idx # 0 THEN <<TrimSpace(Head(lines))>>
            ELSE mountPoint_WholeLine(Tail(lines))

\* the mount point in the output of hdiutil attach: <<>> when no line has one
RECURSIVE mountPoint(_)
mountPoint(lines) ==
    IF Len(lines) = 0 THEN <<>>
    ELSE LET idx == Index(Head(lines), Cmd.Volumes)
         IN IF idx # 0 THEN <<TrimSpace(SubSeq(Head(lines), idx, Len(Head(lines))))>>
            ELSE mountPoint(Tail(lines))

RunnerAttachDiskImage(c, rr, cs, ok, output) ==
    IF c.Simulate
    THEN [r |-> [rr EXCEPT !.mountDir = Join(rr.tmpDir, Cmd.SimulatedMount)],
          calls |-> cs, ret |-> Nil]
    ELSE LET x == runCommandOutput(c, cs, Cmd.Hdiutil,
                                   <<Cmd.Attach, Cmd.Nobrowse, Cmd.Noverify, rr.tmpDmg>>, ok, output)
             found == mountPoint(SplitLines(x.out))
         IN IF x.ret.err # "nil"
            THEN [r |-> rr, calls |-> x.calls,
                  ret |-> Err("ErrMountImage", Msg.ErrMountImage \o Msg.Colon \o x.out)]
            ELSE IF Len(found) > 0
            THEN [r |-> [rr EXCEPT !.mountDir = found[1]], calls |-> x.calls, ret |-> Nil]
            ELSE [r |-> rr, calls |-> x.calls,
                  ret |-> Err("ErrMountImage",
                              Msg.ErrMountImage \o Msg.Colon \o Msg.MountNotFound \o Quote(x.out))]

\* fixPermissions without the permFixed guard
fixPermissions_NoGuard(c, rr, cs, ok) ==
    LET x == runCommand(c, cs, Cmd.Chmod, <<Cmd.Rf, Cmd.GoW, rr.mountDir>>, ok)
    IN IF x.ret.err # "nil"
       THEN [r |-> rr, calls |-> x.calls,
             ret |-> Err(x.ret.err, Msg.ChmodFailed \o x.ret.msg)]
       ELSE [r |-> [rr EXCEPT !.permFixed = TRUE], calls |-> x.calls, ret |-> Nil]

fixPermissions(c, rr, cs, ok) ==
    IF rr.permFixed THEN [r |-> rr, calls |-> cs, ret |-> Nil]
    ELSE LET x == runCommand(c, cs, Cmd.Chmod, <<Cmd.Rf, Cmd.GoW, rr.mountDir>>, ok)
         IN IF x.ret.err # "nil"
            THEN [r |-> rr, calls |-> x.calls,
                  ret |-> Err(x.ret.err, Msg.ChmodFailed \o x.ret.msg)]
            ELSE [r |-> [rr EXCEPT !.permFixed = TRUE], calls |-> x.calls, ret |-> Nil]

\* DetachDiskImage that unmounts whatever fixPermissions returned
RunnerDetachDiskImage_IgnoreChmod(c, rr, cs, ok1, ok2) ==
    IF c.Simulate THEN [r |-> rr, calls |-> cs, ret |-> Nil]
    ELSE LET f == fixPermissions(c, rr, cs, ok1)
         IN Result(f.r, runCommand(c, f.calls, Cmd.Hdiutil, <<Cmd.Detach, f.r.mountDir>>, ok2))

RunnerDetachDiskImage(c, rr, cs, ok1, ok2) ==
    IF c.Simulate THEN [r |-> rr, calls |-> cs, ret |-> Nil]
    ELSE LET f == fixPermissions(c, rr, cs, ok1)
         IN IF f.ret.err # "nil" THEN f
            ELSE Result(f.r, runCommand(c, f.calls, Cmd.Hdiutil, <<Cmd.Detach, f.r.mountDir>>, ok2))

\* Bless without the sandbox-safe exemption
RunnerBless_IgnoreSandbox(c, rr, cs, ok1, ok2) ==
    LET f == fixPermissions(c, rr, cs, ok1)
    IN IF f.ret.err # "nil" THEN f
       ELSE IF ~c.Bless THEN f
       ELSE Result(f.r, runCommand(c, f.calls, Cmd.Bless, <<Cmd.Folder, f.r.mountDir>>, ok2))

RunnerBless(c, rr, cs, ok1, ok2) ==
    LET f == fixPermissions(c, rr, cs, ok1)
    IN IF f.ret.err # "nil" THEN f
       ELSE IF ~c.Bless THEN f
       ELSE IF c.SandboxSafe THEN f
       ELSE Result(f.r, runCommand(c, f.calls, Cmd.Bless, <<Cmd.Folder, f.r.mountDir>>, ok2))

RunnerFinalizeDMG(v, c, rr, cs, ok) ==
    LET args == <<Cmd.Convert, rr.tmpDmg>> \o rr.formatOpts \o <<Cmd.O, rr.finalDmg>>
    IN Result(rr, runCommand(c, cs, Cmd.Hdiutil, setHdiutilVerbosity(v, c, args), ok))

\* Codesign that runs the verification and drops its result
RunnerCodesign_VerifyIgnored(c, rr, cs, ok1, ok2) ==
    IF Len(rr.signOpt) = 0 THEN [r |-> rr, calls |-> cs, ret |-> Nil]
    ELSE LET x1 == runCommand(c, cs, Cmd.Codesign, <<Cmd.S, rr.signOpt, rr.finalDmg>>, ok1)
             x2 == runCommand(c, x1.calls, Cmd.Codesign,
                              <<Cmd.Verify, Cmd.Deep, Cmd.Strict, Cmd.Verbose2, rr.finalDmg>>, ok2)
         IN IF x1.ret.err # "nil"
            THEN [r |-> rr, calls |-> x1.calls,
                  ret |-> Err("ErrCodesignFailed",
                              Msg.ErrCodesignFailed \o Msg.Colon \o Msg.CodesignCmdFailed \o x1.ret.msg)]
            ELSE [r |-> rr, calls |-> x2.calls, ret |-> Nil]

RunnerCodesign(c, rr, cs, ok1, ok2) ==
    IF Len(rr.signOpt) = 0 THEN [r |-> rr, calls |-> cs, ret |-> Nil]
    ELSE LET x1 == runCommand(c, cs, Cmd.Codesign, <<Cmd.S, rr.signOpt, rr.finalDmg>>, ok1)
             x2 == runCommand(c, x1.calls, Cmd.Codesign,
                              <<Cmd.Verify, Cmd.Deep, Cmd.Strict, Cmd.Verbose2, rr.finalDmg>>, ok2)
         IN IF x1.ret.err # "nil"
            THEN [r |-> rr, calls |-> x1.calls,
                  ret |-> Err("ErrCodesignFailed",
                              Msg.ErrCodesignFailed \o Msg.Colon \o Msg.CodesignCmdFailed \o x1.ret.msg)]
            ELSE IF x2.ret.err # "nil"
            THEN [r |-> rr, calls |-> x2.calls,
                  ret |-> Err("ErrCodesignFailed",
                              Msg.ErrCodesignFailed \o Msg.Colon \o Msg.SignatureInvalid \o x2.ret.msg)]
            ELSE [r |-> rr, calls |-> x2.calls, ret |-> Nil]

\* Notarize whose stapler error leaves the tool's output out
RunnerNotarize_NoOutput(c, rr, cs, ok1, ok2, output) ==
    IF Len(rr.notarizeOpt) = 0 THEN [r |-> rr, calls |-> cs, ret |-> Nil]
    ELSE LET x1 == runCommand(c, cs, Cmd.Xcrun,
                              <<Cmd.Notarytool, Cmd.Submit, rr.finalDmg, Cmd.KeychainProfile,
                                rr.notarizeOpt>>, ok1)
             x2 == runCommandOutput(c, x1.calls, Cmd.Xcrun,
                                    <<Cmd.Stapler, Cmd.Staple, rr.finalDmg>>, ok2, output)
         IN IF x1.ret.err # "nil"
            THEN [r |-> rr, calls |-> x1.calls,
                  ret |-> Err("ErrNotarizeFailed",
                              Msg.ErrNotarizeFailed \o Msg.Colon \o Msg.NotarizationFailed \o x1.ret.msg)]
            ELSE IF x2.ret.err # "nil"
            THEN [r |-> rr, calls |-> x2.calls,
                  ret |-> Err("ErrNotarizeFailed",
                              Msg.ErrNotarizeFailed \o Msg.Colon \o Msg.StaplerFailed \o x2.ret.msg)]
            ELSE [r |-> rr, calls |-> x2.calls, ret |-> Nil]

RunnerNotarize(c, rr, cs, ok1, ok2, output) ==
    IF Len(rr.notarizeOpt) = 0 THEN [r |-> rr, calls |-> cs, ret |-> Nil]
    ELSE LET x1 == runCommand(c, cs, Cmd.Xcrun,
                              <<Cmd.Notarytool, Cmd.Submit, rr.finalDmg, Cmd.KeychainProfile,
                                rr.notarizeOpt>>, ok1)
             x2 == runCommandOutput(c, x1.calls, Cmd.Xcrun,
                                    <<Cmd.Stapler, Cmd.Staple, rr.finalDmg>>, ok2, output)
         IN IF x1.ret.err # "nil"
            THEN [r |-> rr, calls |-> x1.calls,
                  ret |-> Err("ErrNotarizeFailed",
                              Msg.ErrNotarizeFailed \o Msg.Colon \o Msg.NotarizationFailed \o x1.ret.msg)]
            ELSE IF x2.ret.err # "nil"
            THEN [r |-> rr, calls |-> x2.calls,
                  ret |-> Err("ErrNotarizeFailed",
                              Msg.ErrNotarizeFailed \o Msg.Colon \o Msg.StaplerFailed \o x2.ret.msg
                              \o Msg.OutputOpen \o x2.out \o <<")">>)]
            ELSE [r |-> rr, calls |-> x2.calls, ret |-> Nil]

\* a cleanup function bound to the tmpDir of the time it was registered,
\* before init assigned it
removeTmpDir_Stale(rr, ds) == ds

\* one registered cleanup function: removes the directory r.tmpDir names when
\* it runs, if it names one
removeTmpDir(rr, ds) == IF rr.tmpDir # <<>> THEN ds \ {rr.tmpDir} ELSE ds

RECURSIVE runCleanupFuncs(_, _, _)
runCleanupFuncs(fs, rr, ds) ==
    IF Len(fs) = 0 THEN ds
    ELSE runCleanupFuncs(Tail(fs), rr, removeTmpDir(rr, ds))

----------------------------------------------------------------------------
(* Runner: operations *)

\* what the executor may answer to hdiutil attach and to stapler
AttachOutputs == {In.OneMount, In.NoMount}

StapleOutputs == {<<>>, <<"E","6","5">>}

Called(name, x) ==
    /\ nops < MaxOps
    /\ nops' = nops + 1
    /\ op' = name
    /\ r' = x.r
    /\ calls' = x.calls
    /\ ret' = x.ret
    /\ UNCHANGED <<sq, bk, dl, ver, cfg, valid, optFns, dirs, made, vhist, setup>>

\* Runner.Setup, that is Runner.init
Setup ==
    LET e == ValidateErr(ver, cfg)
        r1 == [r EXCEPT !.srcDir = Clean(cfg.SourceDir),
                        !.finalDmg = IF ver = "typed" THEN Clean(cfg.OutputPath)
                                     ELSE cfg.OutputPath,
                        !.volNameOpt = volumeNameToOpt(cfg),
                        !.formatOpts = imageFormatToOpts(cfg),
                        !.fsOpts = filesystemToOpts(cfg),
                        !.sizeOpts = volumeSizeToOpts(cfg)]
        tmpDir == TmpName(made + 1)
        r2 == [r1 EXCEPT !.tmpDir = tmpDir,
                         !.cleanupFuncs = <<"removeTmpDir">>,
                         !.tmpDmg = Join(tmpDir, Cmd.TempDmg),
                         !.signOpt = cfg.SigningIdentity,
                         !.notarizeOpt = cfg.NotarizeCredentials]
    IN /\ nops < MaxOps
       /\ nops' = nops + 1
       /\ op' = "Setup"
       /\ valid' = (e = "nil")
       /\ optFns' = (optFns \/ e = "nil")
       /\ vhist' = [err |-> e, dirty |-> FALSE]
       /\ UNCHANGED <<sq, bk, dl, ver, cfg, calls>>
       /\ \/ /\ e # "nil"
             /\ ret' = Returned(e)
             /\ UNCHANGED <<r, dirs, made>>
          \/ /\ e = "nil"                        \* os.MkdirTemp fails
             /\ r' = r1
             /\ ret' = Err(IF ver = "typed" THEN "ErrCreateDir" ELSE "PathError",
                           Msg.ErrCreateDir \o Msg.Colon \o Msg.PermissionDenied)
             /\ UNCHANGED <<dirs, made>>
          \/ /\ e = "nil"
             /\ made < MaxDirs
             /\ made' = made + 1
             /\ dirs' = dirs \cup {tmpDir}
             /\ \/ /\ ver = "typed" \/ Len(cfg.ExcludePatterns) = 0
                   /\ r' = r2
                   /\ ret' = Nil
                \/ /\ ver = "generic" /\ Len(cfg.ExcludePatterns) > 0
                   /\ \/ /\ r' = r2              \* copyWithExclusions fails
                         /\ ret' = Err("ErrExcludeCopy",
                                       Msg.ErrExcludeCopy \o Msg.Colon \o Msg.NoSuchFile)
                      \/ /\ r' = [r2 EXCEPT !.srcDir = Join(tmpDir, Cmd.Staging)]
                         /\ ret' = Nil
       /\ setup' = [last |-> IF ret'.err = "nil" THEN "ok" ELSE "failed",
                    ever |-> setup.ever \/ ret'.err = "nil"]

Cleanup ==
    /\ nops < MaxOps
    /\ nops' = nops + 1
    /\ op' = "Cleanup"
    /\ dirs' = runCleanupFuncs(r.cleanupFuncs, r, dirs)
    /\ ret' = Nil
    /\ UNCHANGED <<sq, bk, dl, ver, cfg, valid, optFns, r, made, calls, vhist, setup>>

Start ==
    \E ok1, ok2 \in BOOLEAN :
        Called("Start", RunnerStart(ver, cfg, r, calls, ok1, ok2))

AttachFrom(outputs) ==
    \E ok \in BOOLEAN : \E output \in outputs :
        Called("AttachDiskImage", RunnerAttachDiskImage(cfg, r, calls, ok, output))

AttachDiskImage == AttachFrom(AttachOutputs)

DetachDiskImage ==
    \E ok1, ok2 \in BOOLEAN :
        Called("DetachDiskImage", RunnerDetachDiskImage(cfg, r, calls, ok1, ok2))

Bless ==
    \E ok1, ok2 \in BOOLEAN :
        Called("Bless", RunnerBless(cfg, r, calls, ok1, ok2))

FinalizeDMG ==
    \E ok \in BOOLEAN :
        Called("FinalizeDMG", RunnerFinalizeDMG(ver, cfg, r, calls, ok))

Codesign ==
    \E ok1, ok2 \in BOOLEAN :
        Called("Codesign", RunnerCodesign(cfg, r, calls, ok1, ok2))

Notarize ==
    \E ok1, ok2 \in BOOLEAN : \E output \in StapleOutputs :
        Called("Notarize", RunnerNotarize(cfg, r, calls, ok1, ok2, output))

\* the caller edits the Config the Runner points to between two calls
EditSourceDir ==
    /\ nops < MaxOps
    /\ \E v \in {<<>>, In.Src} : SetField("SourceDir", v)

RunnerInputs ==
    {c \in [SourceDir : {In.Src},
            OutputPath : {In.MyAppDmg},
            VolumeName : {<<>>},
            VolumeSizeMb : {0},
            SandboxSafe : BOOLEAN,
            Bless : BOOLEAN,
            FileSystem : {<<>>},
            SigningIdentity : {<<>>, In.Identity},
            NotarizeCredentials : {<<>>, In.Profile},
            ImageFormat : {<<>>},
            HDIUtilVerbosity : {0},
            Simulate : BOOLEAN,
            Checksum : {<<>>},
            ExcludePatterns : {<<>>, <<In.TmpPattern>>}] :
        (c.SigningIdentity = <<>>) = (c.NotarizeCredentials = <<>>)}

Init ==
    /\ ver \in Versions
    /\ cfg \in RunnerInputs
    /\ FieldsOf(ver, cfg)
    /\ InitRest

Next ==
    \/ Setup
    \/ Cleanup
    \/ Start
    \/ AttachDiskImage
    \/ DetachDiskImage
    \/ Bless
    \/ FinalizeDMG
    \/ Codesign
    \/ Notarize
    \/ EditSourceDir

Spec == Init /\ [][Next]_vars

(* hdiutil attach over a wider range of outputs *)

MountOutputs ==
    {<<>>, In.OneMount, In.NoMount, In.TwoLines, In.TwoOnLine, In.BareVolumes,
     In.VolumesNoSlash}

AttachInputs ==
    {c \in [SourceDir : {In.Src},
            OutputPath : {In.MyAppDmg},
            VolumeName : {<<>>},
            VolumeSizeMb : {0},
            SandboxSafe : {FALSE},
            Bless : {FALSE},
            FileSystem : {<<>>},
            SigningIdentity : {<<>>},
            NotarizeCredentials : {<<>>},
            ImageFormat : {<<>>},
            HDIUtilVerbosity : {0},
            Simulate : BOOLEAN,
            Checksum : {<<>>},
            ExcludePatterns : {<<>>}] : TRUE}

InitAttach ==
    /\ ver \in Versions
    /\ cfg \in AttachInputs
    /\ InitRest

NextAttach ==
    \/ Setup
    \/ AttachFrom(MountOutputs)

SpecAttach == InitAttach /\ [][NextAttach]_vars

(* the hdiutil invocations under every verbosity level *)

VerbosityInputs ==
    {c \in [SourceDir : {In.Src},
            OutputPath : {In.MyAppDmg},
            VolumeName : {<<>>},
            VolumeSizeMb : {0, 100},
            SandboxSafe : BOOLEAN,
            Bless : {FALSE},
            FileSystem : {<<>>},
            SigningIdentity : {<<>>},
            NotarizeCredentials : {<<>>},
            ImageFormat : {<<>>, Opt.ULFO},
            HDIUtilVerbosity : {-1, 0, 1, 2, 3, 4},
            Simulate : {FALSE},
            Checksum : {<<>>},
            ExcludePatterns : {<<>>}] : TRUE}

InitVerbosity ==
    /\ ver \in Versions
    /\ cfg \in VerbosityInputs
    /\ InitRest

NextVerbosity ==
    \/ Setup
    \/ Start
    \/ AttachDiskImage
    \/ DetachDiskImage
    \/ FinalizeDMG

SpecVerbosity == InitVerbosity /\ [][NextVerbosity]_vars

----------------------------------------------------------------------------
(* Properties of the Runner lifecycle *)

LifecycleOps == {"Start", "AttachDiskImage", "DetachDiskImage", "Bless",
                 "FinalizeDMG", "Codesign", "Notarize"}

\* C1: every lifecycle method called on a Runner on which no Setup has
\* succeeded returns ErrNeedInit, and no external command has been issued
\* (any command issued then is built from zero-valued paths).
C1_NeedInitEverywhere ==
    (op \in LifecycleOps /\ ~setup.ever) =>
        (ret.err = "ErrNeedInit" /\ calls = <<>>)

\* C2: on a Runner whose Setup was never called, a call of Start returns
\* ErrNeedInit and adds no invocation to the executor's log, whatever the
\* Config (Simulate, SandboxSafe included).
C2_StartBeforeSetup ==
    [][(op' = "Start" /\ setup'.last = "never") =>
           (ret'.err = "ErrNeedInit" /\ calls' = calls)]_vars

C2_Witness ==
    /\ op = "Start"
    /\ setup.last = "never"
    /\ ret.err = "ErrNeedInit"
    /\ ~cfg.Simulate
    /\ cfg.SandboxSafe

\* C3: when the most recent Setup returned an error, Start returns ErrNeedInit.
C3_FailedSetupNotReady ==
    (op = "Start" /\ setup.last = "failed") => ret.err = "ErrNeedInit"

Chmods == {i \in 1..Len(calls) : calls[i].name = Cmd.Chmod}

\* C5: with Simulate unset the executor receives chmod at most once per
\* Runner, whatever outcomes it returns.
C5_ChmodAtMostOnce == ~cfg.Simulate => Cardinality(Chmods) <= 1

\* C5 (amended): no chmod is issued after a chmod that succeeded; only a
\* chmod that failed is issued again by the next Bless or DetachDiskImage.
C5_NoChmodAfterSuccess ==
    \A i \in Chmods : calls[i].ok => \A j \in Chmods : j <= i

C5_Witness ==
    /\ op = "Bless"
    /\ ~cfg.Simulate
    /\ Len(calls) = 2
    /\ calls[1].name = Cmd.Chmod /\ calls[1].ok
    /\ calls[2].args = <<Cmd.Detach, r.mountDir>>
    /\ ret.err = "nil"

----------------------------------------------------------------------------
(* Properties of Config *)

KnownFormats == {<<>>, Opt.UDZO, Opt.UDBZ, Opt.ULFO, Opt.ULMO}
KnownFilesystems == {<<>>, Opt.HFS, Opt.APFS}

\* the error the first failing check of the documented order gives
FirstFailingCheck(c) ==
    IF \E f \in TextFields : ContainsRune(c[f], NUL) THEN "ErrUnsafeArg"
    ELSE IF Clean(c.SourceDir)[1] = "-" \/ Clean(c.OutputPath)[1] = "-" THEN "ErrUnsafeArg"
    ELSE IF c.SourceDir = <<>> THEN "ErrInvSourceDir"
    ELSE IF c.VolumeSizeMb < 0 THEN "ErrVolumeSize"
    ELSE IF Ext(c.OutputPath) # Opt.DotDmg THEN "ErrImageFileExt"
    ELSE IF ToUpper(c.ImageFormat) \notin KnownFormats THEN "ErrInvFormatOpt"
    ELSE IF ToUpper(c.FileSystem) \notin KnownFilesystems THEN "ErrInvFilesystemOpt"
    ELSE IF c.SandboxSafe /\ ToUpper(c.FileSystem) = Opt.APFS THEN "ErrSandboxAPFS"
    ELSE IF c.Checksum # <<>> /\ ToUpper(c.Checksum) \notin {Sum.SHA256, Sum.SHA512}
         THEN "ErrInvChecksumAlgo"
    ELSE "nil"

\* C7: Validate returns the error of the first failing check in the order
\* null byte, leading dash, empty SourceDir, negative size, extension, image
\* format, filesystem, sandbox with APFS, checksum; nil when none fails.
C7_ValidationOrder == op = "Validate" => ret.err = FirstFailingCheck(cfg)

\* C8: an accessor panics when Validate was never called and when the most
\* recent Validate failed, also after an earlier Validate had succeeded.
C8_AccessorsPanicUnvalidated ==
    (op \in OptFnNames /\ vhist.err # "nil") => ret.panic

C8_Witness ==
    /\ op \in OptFnNames
    /\ optFns
    /\ vhist.err \notin {"nil", "never"}
    /\ ret.panic

\* the derivation the documentation gives, input by input; NoDerivation for
\* an input that has none
NoDerivation == <<<<"?">>>>

RefFilesystemOpts(fs) ==
    IF fs \in {<<>>, Opt.HFS, In.HfsLower} THEN <<Opt.Fs, Opt.HFS, Opt.Fsargs, Opt.FsargsVal>>
    ELSE IF fs \in {Opt.APFS, In.ApfsMixed} THEN <<Opt.Fs, Opt.APFS>>
    ELSE NoDerivation

RefImageFormatOpts(f) ==
    IF f = <<>> THEN <<Opt.Format, Opt.UDZO, Opt.Imagekey, Opt.Zlib9>>
    ELSE IF f = In.UdbzLower THEN <<Opt.Format, Opt.UDBZ, Opt.Imagekey, Opt.Bzip9>>
    ELSE IF f = Opt.ULFO THEN <<Opt.Format, Opt.ULFO>>
    ELSE IF f = In.UlmoLower THEN <<Opt.Format, Opt.ULMO>>
    ELSE NoDerivation

RefVolumeSizeOpts(n) ==
    IF n = 0 THEN <<>>
    ELSE IF n = 100 THEN <<Opt.Size, <<"1","0","0","m">>>>
    ELSE NoDerivation

RefVolumeNameOpt(c) ==
    IF c.VolumeName # <<>> THEN c.VolumeName
    ELSE IF c.OutputPath = In.MyAppDmg THEN <<"M","y","A","p","p">>
    ELSE IF c.OutputPath = In.DirDmg THEN <<>>
    ELSE IF c.OutputPath = In.DashOut THEN <<"-","o">>
    ELSE IF c.OutputPath = In.NulOut THEN <<"o", NUL>>
    ELSE NoDerivation

Ref(fn, c) ==
    CASE fn = "FilesystemOpts" -> RefFilesystemOpts(c.FileSystem)
      [] fn = "ImageFormatOpts" -> RefImageFormatOpts(c.ImageFormat)
      [] fn = "VolumeSizeOpts" -> RefVolumeSizeOpts(c.VolumeSizeMb)
      [] fn = "VolumeNameOpt" -> RefVolumeNameOpt(c)

Validated == vhist.err = "nil" /\ ~vhist.dirty

\* C9: after a successful Validate each accessor returns the documented
\* derivation of the fields, and Validate succeeds on every supported
\* (format, filesystem) pair, for which both option lists are non-empty.
C9_AccessorsMatchDerivation ==
    /\ (op \in OptFnNames /\ Validated) => (~ret.panic /\ ret.val = Ref(op, cfg))
    /\ (/\ op = "Validate"
        /\ RefImageFormatOpts(cfg.ImageFormat) # NoDerivation
        /\ RefFilesystemOpts(cfg.FileSystem) # NoDerivation
        /\ cfg = [BaseConfig EXCEPT !.ImageFormat = cfg.ImageFormat,
                                    !.FileSystem = cfg.FileSystem])
       => /\ ret.err = "nil"
          /\ Len(imageFormatToOpts(cfg)) > 0
          /\ Len(filesystemToOpts(cfg)) > 0

C9_Witness ==
    /\ op = "ImageFormatOpts"
    /\ Validated
    /\ cfg.ImageFormat = In.UlmoLower
    /\ cfg.VolumeSizeMb = 100
    /\ ret.val = <<Opt.Format, Opt.ULMO>>

AccessorOutputs == [fn \in OptFnNames |-> validWrapper(fn, cfg, optFns, valid)]

\* C10: a Validate on fields unchanged since the previous Validate returns
\* what that one returned and leaves every accessor's output as it was; and
\* after fields were assigned and Validate has succeeded again the accessors
\* return the derivation of the new fields.
C10_ValidateIdempotent ==
    /\ [][(op' = "Validate" /\ vhist.err # "never" /\ ~vhist.dirty) =>
              (ret'.err = vhist.err /\ AccessorOutputs' = AccessorOutputs)]_vars
    /\ []((op \in OptFnNames /\ Validated) => ret = Value(Ref(op, cfg)))

C10_Witness ==
    /\ op = "VolumeSizeOpts"
    /\ Validated
    /\ cfg.VolumeSizeMb = 100
    /\ cfg.VolumeName = In.NewVolume
    /\ ret.val = <<Opt.Size, <<"1","0","0","m">>>>

----------------------------------------------------------------------------
(* Properties of the commands the Runner issues *)

\* the invocations the executor receives in the step
Issued == SubSeq(calls', Len(calls) + 1, Len(calls'))

\* the step is a call of the Runner method name
StepOf(name) == op' = name /\ nops' = nops + 1

IsHdiutil(call, sub) == call.name = Cmd.Hdiutil /\ call.args[1] = sub

\* C11: after a successful Setup and with Simulate unset, Start issues one
\* hdiutil create when SandboxSafe is unset; when it is set Start issues
\* hdiutil makehybrid and, only if that succeeded, hdiutil convert after it; a
\* failed makehybrid's error is what Start returns.
C11_StartSequence ==
    [][(StepOf("Start") /\ setup.last = "ok" /\ ~cfg.Simulate) =>
           IF ~cfg.SandboxSafe
           THEN Len(Issued) = 1 /\ IsHdiutil(Issued[1], Cmd.Create)
           ELSE /\ Len(Issued) >= 1
                /\ IsHdiutil(Issued[1], Cmd.Makehybrid)
                /\ Issued[1].ok =>
                       /\ Len(Issued) = 2
                       /\ IsHdiutil(Issued[2], Cmd.Convert)
                /\ ~Issued[1].ok =>
                       /\ Len(Issued) = 1
                       /\ ret' = ExecErr]_vars

C11_Witness ==
    /\ op = "Start"
    /\ setup.last = "ok"
    /\ cfg.SandboxSafe
    /\ ~cfg.Simulate
    /\ Len(calls) = 1
    /\ IsHdiutil(calls[1], Cmd.Makehybrid)
    /\ ~calls[1].ok
    /\ ret = ExecErr

VerbosityFlags == {Cmd.Quiet, Cmd.Verbose, Cmd.Debug}

\* the flag of a positive verbosity level
VerbosityFlag(n) == IF n = 1 THEN Cmd.Quiet ELSE IF n = 2 THEN Cmd.Verbose ELSE Cmd.Debug

\* the documented rule for one hdiutil argument list at verbosity n
FollowsVerbosityRule(args, n) ==
    LET flagged == {i \in 1..Len(args) : args[i] \in VerbosityFlags}
    IN IF n <= 0 THEN flagged = {}
       ELSE /\ Cardinality(flagged) = 1
            /\ IF Len(args) >= 2 /\ args[1] \in {Cmd.Create, Cmd.Makehybrid, Cmd.Convert}
               THEN args[2] = VerbosityFlag(n)
               ELSE args[1] = VerbosityFlag(n)

\* C12: every hdiutil invocation the executor received carries no verbosity
\* flag when HDIUtilVerbosity <= 0 and otherwise exactly one (-quiet for 1,
\* -verbose for 2, -debug from 3 on), second after create, makehybrid and
\* convert and first before every other subcommand.
C12_VerbosityRule ==
    \A i \in 1..Len(calls) :
        calls[i].name = Cmd.Hdiutil =>
            FollowsVerbosityRule(calls[i].args, cfg.HDIUtilVerbosity)

Contains(s, sub) == Index(s, sub) # 0

\* what hdiutil attach's output names as the mount point, output by output;
\* NoMountPoint for an output without one
NoMountPoint == <<"?">>

RefMountPoint(output) ==
    IF output = In.OneMount THEN <<"/","V","o","l","u","m","e","s","/","T">>
    ELSE IF output = In.TwoLines THEN <<"/","V","o","l","u","m","e","s","/","A">>
    ELSE IF output = In.TwoOnLine THEN In.TwoOnLine
    ELSE IF output = In.BareVolumes THEN <<"/","V","o","l","u","m","e","s","/">>
    ELSE NoMountPoint

AttachFails == ~Issued[1].ok \/ RefMountPoint(Issued[1].out) = NoMountPoint

\* C13: AttachDiskImage with Simulate unset returns an error matching
\* ErrMountImage whose message contains the raw output and leaves the mount
\* path alone when the executor fails or no output line holds "/Volumes/";
\* otherwise the mount path becomes the text from the first "/Volumes/" of
\* the first line that has one, trimmed of surrounding whitespace.
C13_AttachRawOutput ==
    [][(StepOf("AttachDiskImage") /\ ~cfg.Simulate) =>
           /\ Len(Issued) = 1
           /\ IF AttachFails
              THEN /\ ret'.err = "ErrMountImage"
                   /\ Contains(ret'.msg, Issued[1].out)
                   /\ r'.mountDir = r.mountDir
              ELSE /\ ret' = Nil
                   /\ r'.mountDir = RefMountPoint(Issued[1].out)]_vars

\* C13 (amended): as C13, the message holding the raw output when the
\* executor failed and the output quoted as a Go string (%q) when the
\* executor succeeded and no line holds "/Volumes/".
C13_AttachResult ==
    [][(StepOf("AttachDiskImage") /\ ~cfg.Simulate) =>
           /\ Len(Issued) = 1
           /\ IF AttachFails
              THEN /\ ret'.err = "ErrMountImage"
                   /\ IF Issued[1].ok
                      THEN Contains(ret'.msg, Quote(Issued[1].out))
                      ELSE Contains(ret'.msg, Issued[1].out)
                   /\ r'.mountDir = r.mountDir
              ELSE /\ ret' = Nil
                   /\ r'.mountDir = RefMountPoint(Issued[1].out)]_vars

C13_Witness ==
    /\ op = "AttachDiskImage"
    /\ ~cfg.Simulate
    /\ Len(calls) = 2
    /\ calls[1].ok /\ calls[1].out = In.TwoLines
    /\ calls[2].ok /\ calls[2].out = In.NoMount
    /\ ret.err = "ErrMountImage"
    /\ r.mountDir = <<"/","V","o","l","u","m","e","s","/","A">>

IsCall(call, name, args) == call.name = name /\ call.args = args

\* C14: DetachDiskImage with Simulate unset issues chmod -Rf go-w on the mount
\* path first, unless an earlier chmod succeeded, and hdiutil detach on the
\* mount path after it; when chmod fails the error returned says "chmod
\* failed" and no detach is issued.
C14_ChmodBeforeDetach ==
    [][(StepOf("DetachDiskImage") /\ ~cfg.Simulate) =>
           IF r.permFixed
           THEN /\ Len(Issued) = 1
                /\ IsCall(Issued[1], Cmd.Hdiutil, <<Cmd.Detach, r.mountDir>>)
           ELSE /\ Len(Issued) >= 1
                /\ IsCall(Issued[1], Cmd.Chmod, <<Cmd.Rf, Cmd.GoW, r.mountDir>>)
                /\ Issued[1].ok =>
                       /\ Len(Issued) = 2
                       /\ IsCall(Issued[2], Cmd.Hdiutil, <<Cmd.Detach, r.mountDir>>)
                /\ ~Issued[1].ok =>
                       /\ Len(Issued) = 1
                       /\ ret'.err # "nil"
                       /\ Contains(ret'.msg, <<"c","h","m","o","d"," ","f","a","i","l","e","d">>)]_vars

C14_Witness ==
    /\ op = "DetachDiskImage"
    /\ ~cfg.Simulate
    /\ r.mountDir = <<"/","V","o","l","u","m","e","s","/","T">>
    /\ Len(calls) = 3
    /\ calls[2].name = Cmd.Chmod /\ calls[2].ok
    /\ IsCall(calls[3], Cmd.Hdiutil, <<Cmd.Detach, r.mountDir>>)

\* the step handed a bless command to the executor
BlessIssued == \E i \in 1..Len(Issued) : Issued[i].name = Cmd.Bless

\* permission fixing has succeeded by the end of the step
FixSucceeded == r.permFixed \/ (Len(Issued) >= 1 /\ Issued[1].name = Cmd.Chmod /\ Issued[1].ok)

SubmissionFailure ==
    Err("ErrNotarizeFailed",
        <<"n","o","t","a","r","i","z","a","t","i","o","n"," ","f","a","i","l","e","d",":"," ",
          "n","o","t","a","r","i","z","a","t","i","o","n"," ","f","a","i","l","e","d",":"," ">>
        \o Msg.ExitStatus)

C18_SandboxSafeArgs ==
    [][(StepOf("Start") /\ cfg.SandboxSafe /\ cfg.HDIUtilVerbosity = 0) =>
           \A i \in 1..Len(Issued) :
               /\ IsHdiutil(Issued[i], Cmd.Makehybrid) =>
                      Issued[i].args = <<Cmd.Makehybrid, Cmd.DefaultVolumeName, r.volNameOpt,
                                         Cmd.HfsFlag, Cmd.R, r.srcDir, r.tmpDmg>>
               /\ IsHdiutil(Issued[i], Cmd.Convert) =>
                      Issued[i].args = <<Cmd.Convert, r.tmpDmg, Opt.Format, Cmd.UDRW, Cmd.Ov,
                                         Cmd.O, r.tmpDmg>>]_vars

----------------------------------------------------------------------------
(* Config as JSON.  A document is the sequence of the members the encoder  *)
(* writes, in the order of the struct's fields; a member holds its key and *)
(* the text of its value (for the array, the texts of its elements).       *)

\* what json.Encoder writes for one byte of a string: the quote, the
\* backslash, control characters and < > & are escaped, a byte that is not
\* valid UTF-8 becomes the escape of U+FFFD
jsonEscape(ch) ==
    CASE ch = "\"" -> <<"\\", "\"">>
      [] ch = "\\" -> <<"\\", "\\">>
      [] ch = "\n" -> <<"\\", "n">>
      [] ch = "\r" -> <<"\\", "r">>
      [] ch = "\t" -> <<"\\", "t">>
      [] ch = NUL -> <<"\\", "u", "0", "0", "0", "0">>
      [] ch = "<" -> <<"\\", "u", "0", "0", "3", "c">>
      [] ch = ">" -> <<"\\", "u", "0", "0", "3", "e">>
      [] ch = "&" -> <<"\\", "u", "0", "0", "2", "6">>
      [] ch = In.BadByte -> <<"\\", "u", "f", "f", "f", "d">>
      [] OTHER -> <<ch>>

RECURSIVE jsonEscapeAll(_)
jsonEscapeAll(s) == IF Len(s) = 0 THEN <<>> ELSE jsonEscape(s[1]) \o jsonEscapeAll(Tail(s))

\* a Go string as a JSON string
jsonString(s) == <<"\"">> \o jsonEscapeAll(s) \o <<"\"">>

\* the body of a JSON string read back without undoing its escapes
jsonUnescape_Verbatim(s) == s

\* the body of a JSON string read back by json.Decoder
RECURSIVE jsonUnescape(_)
jsonUnescape(s) ==
    IF Len(s) = 0 THEN <<>>
    ELSE IF s[1] # "\\" THEN <<s[1]>> \o jsonUnescape(Tail(s))
    ELSE IF s[2] = "u"
    THEN LET hex == SubSeq(s, 3, 6)
         IN <<(CASE hex = <<"0","0","0","0">> -> NUL
                 [] hex = <<"0","0","3","c">> -> "<"
                 [] hex = <<"0","0","3","e">> -> ">"
                 [] hex = <<"0","0","2","6">> -> "&"
                 [] hex = <<"f","f","f","d">> -> In.RuneError)>>
            \o jsonUnescape(SubSeq(s, 7, Len(s)))
    ELSE <<(CASE s[2] = "n" -> "\n"
              [] s[2] = "r" -> "\r"
              [] s[2] = "t" -> "\t"
              [] OTHER -> s[2])>> \o jsonUnescape(SubSeq(s, 3, Len(s)))

\* a JSON string as a Go string
jsonUnquote(t) == jsonUnescape(SubSeq(t, 2, Len(t) - 1))

\* a JSON number as an integer
RECURSIVE Atoi(_)
Atoi(t) ==
    LET val(ch) == CHOOSE d \in 0..9 : Digit(d) = ch
    IN IF t[1] = "-" THEN 0 - Atoi(Tail(t))
       ELSE IF Len(t) = 1 THEN val(t[1])
       ELSE 10 * Atoi(SubSeq(t, 1, Len(t) - 1)) + val(t[Len(t)])

\* json.Encoder on a Config: every tag has omitempty, so a field holding its
\* zero value writes no member
ConfigToJSON(v, c) ==
    LET str(k, x) == IF x = <<>> THEN <<>> ELSE <<[key |-> k, val |-> jsonString(x)]>>
        num(k, n) == IF n = 0 THEN <<>> ELSE <<[key |-> k, val |-> Itoa(n)]>>
        bool(k, b) == IF b THEN <<[key |-> k, val |-> <<"t","r","u","e">>]>> ELSE <<>>
        arr(k, xs) == IF xs = <<>> THEN <<>>
                      ELSE <<[key |-> k, val |-> [i \in 1..Len(xs) |-> jsonString(xs[i])]]>>
    IN str("volume_name", c.VolumeName)
       \o num("volume_size_mb", c.VolumeSizeMb)
       \o bool("sandbox_safe", c.SandboxSafe)
       \o bool("bless", c.Bless)
       \o str("filesystem", c.FileSystem)
       \o str("signing_identity", c.SigningIdentity)
       \o str("notarize_credentials", c.NotarizeCredentials)
       \o str("image_format", c.ImageFormat)
       \o num("hdiutil_verbosity", c.HDIUtilVerbosity)
       \o str("output_path", c.OutputPath)
       \o str("source_dir", c.SourceDir)
       \o bool("simulate", c.Simulate)
       \o (IF v = "generic"
           THEN str("checksum", c.Checksum) \o arr("exclude_patterns", c.ExcludePatterns)
           ELSE <<>>)

\* json.Decoder into a zero Config: a member sets its field, a field without
\* a member keeps its zero value, a key the struct does not have is skipped
ConfigFromJSON(v, doc) ==
    LET has(k) == \E i \in 1..Len(doc) : doc[i].key = k
        text(k) == doc[CHOOSE i \in 1..Len(doc) : doc[i].key = k].val
        str(k) == IF has(k) THEN jsonUnquote(text(k)) ELSE <<>>
        num(k) == IF has(k) THEN Atoi(text(k)) ELSE 0
        bool(k) == has(k) /\ text(k) = <<"t","r","u","e">>
        arr(k) == IF has(k) THEN [i \in 1..Len(text(k)) |-> jsonUnquote(text(k)[i])] ELSE <<>>
    IN [VolumeName |-> str("volume_name"),
        VolumeSizeMb |-> num("volume_size_mb"),
        SandboxSafe |-> bool("sandbox_safe"),
        Bless |-> bool("bless"),
        FileSystem |-> str("filesystem"),
        SigningIdentity |-> str("signing_identity"),
        NotarizeCredentials |-> str("notarize_credentials"),
        ImageFormat |-> str("image_format"),
        HDIUtilVerbosity |-> num("hdiutil_verbosity"),
        OutputPath |-> str("output_path"),
        SourceDir |-> str("source_dir"),
        Simulate |-> bool("simulate"),
        Checksum |-> IF v = "generic" THEN str("checksum") ELSE <<>>,
        ExcludePatterns |-> IF v = "generic" THEN arr("exclude_patterns") ELSE <<>>]

\* Config.ToJSON: the document goes to the writer
ToJSON ==
    /\ ret' = Value(ConfigToJSON(ver, cfg))
    /\ op' = "ToJSON"
    /\ UNCHANGED <<sq, bk, dl, ver, cfg, valid, optFns, r, dirs, made, calls, vhist, setup, nops>>

\* Config.FromJSON on a reader holding what ToJSON has just written: the
\* decoded Config replaces the receiver, unvalidated and without wrappers
FromJSON ==
    /\ op = "ToJSON"
    /\ cfg' = ConfigFromJSON(ver, ret.val)
    /\ valid' = FALSE
    /\ optFns' = FALSE
    /\ vhist' = [vhist EXCEPT !.dirty = TRUE]
    /\ op' = "FromJSON"
    /\ ret' = Returned("nil")
    /\ UNCHANGED <<sq, bk, dl, ver, r, dirs, made, calls, setup, nops>>

JSONInputs ==
    [SourceDir : {In.Src},
     OutputPath : {<<>>, In.MyAppDmg},
     VolumeName : {<<>>, In.Vol, In.Escaped, In.BadVol},
     VolumeSizeMb : {-1, 0, 100},
     SandboxSafe : BOOLEAN,
     Bless : {TRUE},
     FileSystem : {Opt.APFS},
     SigningIdentity : {In.Identity},
     NotarizeCredentials : {In.Profile},
     ImageFormat : {Opt.ULFO},
     HDIUtilVerbosity : {-1, 0, 2},
     Simulate : BOOLEAN,
     Checksum : {<<>>, Sum.SHA256},
     ExcludePatterns : {<<>>, <<In.DsStore, In.Escaped>>}]

InitJSON ==
    /\ ver \in Versions
    /\ cfg \in JSONInputs
    /\ FieldsOf(ver, cfg)
    /\ InitRest

NextJSON == Validate \/ ToJSON \/ FromJSON

SpecJSON == InitJSON /\ [][NextJSON]_vars

\* s with every byte that is not valid UTF-8 replaced by U+FFFD
ToValidUTF8(s) == [i \in 1..Len(s) |-> IF s[i] = In.BadByte THEN In.RuneError ELSE s[i]]

\* C19: a Config written by ToJSON and read back by FromJSON equals the
\* original on every exported data field.
C19_RoundTrip ==
    [][(op = "ToJSON" /\ op' = "FromJSON") => cfg' = cfg]_vars

\* C19, amended: the Config read back equals the original with every byte of
\* its strings that is not valid UTF-8 replaced by U+FFFD, so it equals the
\* original when the original's strings are valid UTF-8.
C19_RoundTripUTF8 ==
    [][(op = "ToJSON" /\ op' = "FromJSON") =>
           cfg' = [f \in DOMAIN cfg |->
                       IF f \in TextFields \cup {"Checksum"} THEN ToValidUTF8(cfg[f])
                       ELSE IF f = "ExcludePatterns"
                       THEN [i \in 1..Len(cfg[f]) |-> ToValidUTF8(cfg[f][i])]
                       ELSE cfg[f]]]_vars

C19_Witness ==
    /\ op = "FromJSON"
    /\ ver = "generic"
    /\ cfg.VolumeName = In.Escaped
    /\ cfg.ExcludePatterns = <<In.DsStore, In.Escaped>>
    /\ cfg.Checksum = Sum.SHA256
    /\ cfg.VolumeSizeMb = -1
    /\ cfg.HDIUtilVerbosity = 2
    /\ cfg.SandboxSafe /\ cfg.Simulate

----------------------------------------------------------------------------
(* Package dirlist: a list of directories parsed from PATH-like variables  *)

\* shellescape.Quote: the empty string becomes '', a string holding a
\* character outside [A-Za-z0-9_@%+=:,./-] is put in single quotes with each
\* single quote in it replaced by '"'"', any other string is returned as is
shellescapeQuote(s) ==
    LET safe == {Lower[i] : i \in 1..26} \cup {Upper[i] : i \in 1..26}
                \cup {Digit(i) : i \in 0..9}
                \cup {"_", "@", "%", "+", "=", ":", ",", ".", "/", "-"}
        RECURSIVE replaced(_)
        replaced(t) ==
            IF Len(t) = 0 THEN <<>>
            ELSE (IF t[1] = "'" THEN <<"'", "\"", "'", "\"", "'">> ELSE <<t[1]>>)
                 \o replaced(Tail(t))
    IN IF Len(s) = 0 THEN <<"'", "'">>
       ELSE IF \E i \in 1..Len(s) : s[i] \notin safe
       THEN <<"'">> \o replaced(s) \o <<"'">>
       ELSE s

quoteAndClean(s) == shellescapeQuote(Clean(s))

\* dirList.Contains: the argument is cleaned and quoted, then looked up
dirListContains(lst, p) == \E i \in 1..Len(lst) : lst[i] = quoteAndClean(p)

\* filepath.SplitList on a Unix host
RECURSIVE SplitList(_)
SplitList(s) ==
    IF Len(s) = 0 THEN <<>>
    ELSE IF ~ContainsRune(s, ":") THEN <<s>>
    ELSE LET i == CHOOSE k \in 1..Len(s) : s[k] = ":" /\ \A j \in 1..(k - 1) : s[j] # ":"
         IN IF i = Len(s) THEN <<SubSeq(s, 1, i - 1), <<>>>>
            ELSE <<SubSeq(s, 1, i - 1)>> \o SplitList(SubSeq(s, i + 1, Len(s)))

\* removeDups with filterEmptyStrings: blank elements are skipped, the others
\* cleaned; the first occurrence of each cleaned value is kept, quoted
removeDups(col) ==
    LET RECURSIVE loop(_, _, _)
        loop(rest, uniq, ks) ==
            IF Len(rest) = 0 THEN uniq
            ELSE IF TrimSpace(rest[1]) = <<>> THEN loop(Tail(rest), uniq, ks)
            ELSE LET vv == Clean(rest[1])
                 IN IF vv \in ks THEN loop(Tail(rest), uniq, ks)
                    ELSE loop(Tail(rest), Append(uniq, shellescapeQuote(vv)), ks \cup {vv})
    IN loop(col, <<>>, {})

cleanPathVar(src) == IF src = <<>> THEN <<>> ELSE removeDups(SplitList(src))

\* the paths and the PATH-like values the callers pass
DirIn ==
    [Paths |-> {<<>>, <<"/","v">>, <<"/","v","/">>, <<"/","/","v">>,
                <<"/","a"," ","b">>, <<"/","a"," ","b","/">>, <<"/","i","t","'","s">>},
     Sources |-> {<<>>,
                  <<"/","v",":","/","v","/",":",":","/","a"," ","b">>,
                  <<"/","a"," ","b",":"," ",":","/","a"," ","b","/",":","/","v",":">>},
     Targets |-> {<<"/","a">>, <<"/","b","\"","<">>},
     Snapshot |-> <<"/","c","/","s","n","a","p","s","h","o","t","s","/">>]

DirOp(name, lst, src) ==
    /\ dl' = [lst |-> lst, src |-> src]
    /\ op' = name
    /\ ret' = Returned("nil")
    /\ UNCHANGED <<sq, bk, ver, cfg, valid, optFns, r, dirs, made, calls, vhist, setup, nops>>

\* New, and Reset: init
ListNew == DirOp("New", <<>>, <<>>)

ListReset == DirOp("Reset", <<>>, <<>>)

ListLoad == \E s \in DirIn.Sources : DirOp("Load", cleanPathVar(s), s)

ListAppend ==
    \E path \in DirIn.Paths :
        LET p == quoteAndClean(path)
        IN /\ Len(dl.lst) < MaxList
           /\ DirOp("Append",
                    IF Len(dl.lst) = 0 THEN <<p>>
                    ELSE IF ~dirListContains(dl.lst, p) THEN Append(dl.lst, p)
                    ELSE dl.lst,
                    dl.src)

ListPrepend ==
    \E path \in DirIn.Paths :
        LET p == quoteAndClean(path)
        IN /\ Len(dl.lst) < MaxList
           /\ DirOp("Prepend",
                    IF Len(dl.lst) = 0 THEN <<p>>
                    ELSE IF ~dirListContains(dl.lst, p) THEN <<p>> \o dl.lst
                    ELSE dl.lst,
                    dl.src)

ListDrop ==
    \E path \in DirIn.Paths :
        LET p == quoteAndClean(path)
            found == {i \in 1..Len(dl.lst) : dl.lst[i] = p}
            idx == CHOOSE i \in found : \A j \in found : i <= j
        IN DirOp("Drop",
                 IF found = {} THEN dl.lst
                 ELSE SubSeq(dl.lst, 1, idx - 1) \o SubSeq(dl.lst, idx + 1, Len(dl.lst)),
                 dl.src)

InitDirlist ==
    /\ ver = "generic"
    /\ cfg = BaseConfig
    /\ InitRest

NextDirlist == ListNew \/ ListReset \/ ListLoad \/ ListAppend \/ ListPrepend \/ ListDrop

SpecDirlist == InitDirlist /\ [][NextDirlist]_vars

\* C20: the list never holds two equal entries, whatever sequence of New,
\* Load, Append, Prepend, Drop and Reset has run.
C20_DuplicateFree ==
    \A i, j \in 1..Len(dl.lst) : i # j => dl.lst[i] # dl.lst[j]

\* C21: Append (Prepend) leaves the list unchanged when the cleaned path is
\* already an entry, and otherwise adds it as the last (first) entry, the
\* existing entries staying in their order.
C21_AppendPrependFrame ==
    [][/\ op' = "Append" =>
              \E path \in DirIn.Paths :
                  LET p == quoteAndClean(path)
                  IN IF \E i \in 1..Len(dl.lst) : dl.lst[i] = p
                     THEN dl'.lst = dl.lst
                     ELSE dl'.lst = dl.lst \o <<p>>
       /\ op' = "Prepend" =>
              \E path \in DirIn.Paths :
                  LET p == quoteAndClean(path)
                  IN IF \E i \in 1..Len(dl.lst) : dl.lst[i] = p
                     THEN dl'.lst = dl.lst
                     ELSE dl'.lst = <<p>> \o dl.lst]_vars

----------------------------------------------------------------------------
(* Package seq: a sequence of integers as strings, produced by a goroutine *)
(* on an unbuffered channel.  An int has IntBits bits.                     *)

\* the int that n is after two's-complement wrap-around
Wrap(n) == ((n + 2^(IntBits - 1)) % 2^IntBits) - 2^(IntBits - 1)

\* fmt.Sprintf("%0<width>d", n); width 0 is "%d"
Sprintf0d(width, n) ==
    LET digits == Itoa(IF n < 0 THEN 0 - n ELSE n)
        sign == IF n < 0 THEN <<"-">> ELSE <<>>
        fill == width - Len(sign) - Len(digits)
    IN sign \o [i \in 1..(IF fill > 0 THEN fill ELSE 0) |-> "0"] \o digits

\* NewInt: the sequence as the call returns it, the goroutine not yet run
NewInt(start, incr, end, width) ==
    [start |-> start, incr |-> incr,
     step |-> IF end < start THEN Wrap(0 - Wrap(incr)) ELSE Wrap(incr),
     end |-> end, width |-> width, widthExceeded |-> FALSE,
     cur |-> start, pc |-> "for", next |-> <<>>, closed |-> FALSE, out |-> <<>>]

SeqStep(name, s) ==
    /\ sq' = s
    /\ op' = name
    /\ UNCHANGED <<bk, dl, ver, cfg, valid, optFns, r, dirs, made, calls, ret, vhist, setup, nops>>

\* push, from the loop condition to the channel send, the flag or the end of
\* the loop
pushLoop ==
    /\ sq.pc = "for"
    /\ LET next == Sprintf0d(sq.width, sq.cur)
       IN IF ~((sq.step > 0 /\ sq.cur <= sq.end) \/ (sq.step < 0 /\ sq.cur >= sq.end))
          THEN SeqStep("push", [sq EXCEPT !.pc = "close"])
          ELSE IF sq.width # 0 /\ sq.width - Len(next) < 0
          THEN SeqStep("push", [sq EXCEPT !.widthExceeded = TRUE, !.pc = "close"])
          ELSE SeqStep("push", [sq EXCEPT !.next = next, !.pc = "send"])

\* s.data <- next meets the consumer's receive from Items(); then cur += step
pushSend ==
    /\ sq.pc = "send"
    /\ SeqStep("Items", [sq EXCEPT !.out = IF Len(sq.out) < 2^IntBits
                                            THEN Append(sq.out, sq.next) ELSE sq.out,
                                    !.cur = Wrap(sq.cur + sq.step),
                                    !.pc = "for"])

\* close(s.data)
pushClose ==
    /\ sq.pc = "close"
    /\ SeqStep("close", [sq EXCEPT !.closed = TRUE, !.pc = "done"])

\* the caller asks WidthExceeded()
WidthExceeded ==
    /\ sq.pc # "none"
    /\ ret' = Value(<<sq.widthExceeded>>)
    /\ op' = "WidthExceeded"
    /\ UNCHANGED <<sq, bk, dl, ver, cfg, valid, optFns, r, dirs, made, calls, vhist, setup, nops>>

InitSeq ==
    /\ ver = "generic"
    /\ cfg = BaseConfig
    /\ valid = FALSE /\ optFns = FALSE /\ r = NewRunner /\ dirs = {} /\ made = 0
    /\ calls = <<>> /\ op = "NewInt" /\ ret = Returned("nil")
    /\ vhist = [err |-> "never", dirty |-> FALSE]
    /\ setup = [last |-> "never", ever |-> FALSE]
    /\ nops = 0
    /\ dl = [lst |-> <<>>, src |-> <<>>]
    /\ bk = [pkg |-> "none"]
    /\ \E start \in {-2, 0, 10, 2^(IntBits - 1) - 2},
          incr \in {0, 1, 2, 5, 2^IntBits - 1},
          end \in {-3, 0, 12, 2^(IntBits - 1) - 1},
          width \in {0, 1, 2} :
           sq = NewInt(start, incr, end, width)

NextSeq == pushLoop \/ pushSend \/ pushClose \/ WidthExceeded

SpecSeq == InitSeq /\ [][NextSeq]_vars

\* the goroutine keeps running and the consumer keeps receiving
SpecSeqLive == SpecSeq /\ WF_vars(pushLoop) /\ WF_vars(pushSend) /\ WF_vars(pushClose)

\* the items the sequence is to hold: v, v + incr, ... (v - incr, ... when
\* descending) as long as the value does not pass end and its text fits width
RECURSIVE ItemsFrom(_, _, _, _, _)
ItemsFrom(v, incr, end, width, ascending) ==
    IF (ascending /\ v > end) \/ (~ascending /\ v < end) THEN <<>>
    ELSE IF width > 0 /\ Len(Sprintf0d(width, v)) > width THEN <<>>
    ELSE <<Sprintf0d(width, v)>>
         \o ItemsFrom(IF ascending THEN v + incr ELSE v - incr, incr, end, width, ascending)

\* some value of the sequence, reached before end is passed, does not fit width
RECURSIVE ExceedsFrom(_, _, _, _, _)
ExceedsFrom(v, incr, end, width, ascending) ==
    IF (ascending /\ v > end) \/ (~ascending /\ v < end) THEN FALSE
    ELSE IF width > 0 /\ Len(Sprintf0d(width, v)) > width THEN TRUE
    ELSE ExceedsFrom(IF ascending THEN v + incr ELSE v - incr, incr, end, width, ascending)

ItemsAsStated ==
    /\ sq.incr > 0
    /\ LET want == ItemsFrom(sq.start, sq.incr, sq.end, sq.width, sq.end >= sq.start)
       IN /\ Len(sq.out) <= Len(want)
          /\ sq.out = SubSeq(want, 1, Len(sq.out))
          /\ sq.closed =>
                 /\ sq.out = want
                 /\ sq.widthExceeded =
                        ExceedsFrom(sq.start, sq.incr, sq.end, sq.width, sq.end >= sq.start)

\* C22: a consumer that receives until the channel is closed gets start,
\* start + incr, ... toward end, in order, up to the last value that does
\* not pass end, each zero-padded to width; production stops at the first
\* value whose text is longer than width, WidthExceeded() is then true and
\* false otherwise; the channel is eventually closed.
C22_ItemsInOrder == [](sq.incr > 0 => ItemsAsStated) /\ <>(sq.closed)

\* C25: WidthExceeded() called after NewInt has returned and before any item
\* has been received returns false, however the goroutine is scheduled.
C25_FalseBeforeFirstItem ==
    [][(op' = "WidthExceeded" /\ sq.out = <<>>) => ret'.val = <<FALSE>>]_vars

----------------------------------------------------------------------------
(* The backup registry of pushbak and popbak.  bk.pkg tells the package:   *)
(* dirsnapshots (part_007) or dirbaks (part_006).  bk.mem is the Backups   *)
(* of the running command once bk.loaded; bk.files holds config.json and   *)
(* b.json of the configuration directory; bk.n counts the snapshot         *)
(* directories made so far.                                                *)

\* json.Encoder on Snapshots, a map[string][]string
EncodeSnapshots(snap) ==
    {[key |-> jsonString(orig), val |-> [i \in 1..Len(snap[orig]) |-> jsonString(snap[orig][i])]] :
        orig \in {o \in DOMAIN snap : snap[o] # <<>>}}

\* json.Decoder into Snapshots
DecodeSnapshots(doc) ==
    [orig \in DirIn.Targets |->
        IF \E m \in doc : jsonUnquote(m.key) = orig
        THEN LET m == CHOOSE x \in doc : jsonUnquote(x.key) = orig
             IN [i \in 1..Len(m.val) |-> jsonUnquote(m.val[i])]
        ELSE <<>>]

BakStep(name, b, result) ==
    /\ bk' = b
    /\ op' = name
    /\ ret' = result
    /\ UNCHANGED <<sq, dl, ver, cfg, valid, optFns, r, dirs, made, calls, vhist, setup, nops>>

\* Load: config.json decoded, or a new registry when there is no such file
BakLoad ==
    BakStep("Load",
            [bk EXCEPT !.loaded = TRUE,
                       !.mem = IF ~bk.files.config.exists
                               THEN [orig \in DirIn.Targets |-> <<>>]
                               ELSE DecodeSnapshots(bk.files.config.doc)],
            Returned("nil"))

\* Save: dirsnapshots writes b.json, dirbaks writes config.json
BakSave ==
    /\ bk.loaded
    /\ BakStep("Save",
               [bk EXCEPT !.files[IF bk.pkg = "dirsnapshots" THEN "b" ELSE "config"] =
                              [exists |-> TRUE, doc |-> EncodeSnapshots(bk.mem)]],
               Returned("nil"))

\* PushDir with the directory ioutil.TempDir has made under SnapshotsDir()
BakPushDir ==
    /\ bk.loaded
    /\ bk.n < MaxBaks
    /\ \E orig \in DirIn.Targets :
           BakStep("PushDir",
                   [bk EXCEPT !.mem[orig] = Append(bk.mem[orig], DirIn.Snapshot \o Itoa(bk.n + 1)),
                              !.n = bk.n + 1],
                   Returned("nil"))

\* PopDir that takes the oldest backup
PopDir_Oldest(snap, orig) ==
    IF Len(snap[orig]) = 0 THEN [elem |-> <<>>, ok |-> FALSE, snap |-> snap]
    ELSE [elem |-> snap[orig][1], ok |-> TRUE, snap |-> [snap EXCEPT ![orig] = Tail(snap[orig])]]

\* PopDir: the element returned, the flag, and Snapshots afterwards
PopDir(snap, orig) ==
    IF Len(snap[orig]) = 0 THEN [elem |-> <<>>, ok |-> FALSE, snap |-> snap]
    ELSE [elem |-> snap[orig][Len(snap[orig])], ok |-> TRUE,
          snap |-> [snap EXCEPT ![orig] = SubSeq(snap[orig], 1, Len(snap[orig]) - 1)]]

BakPopDir ==
    /\ bk.loaded
    /\ \E orig \in DirIn.Targets :
           LET x == PopDir(bk.mem, orig)
           IN BakStep("PopDir", [bk EXCEPT !.mem = x.snap], Value(<<x.elem, x.ok>>))

InitBak ==
    /\ ver = "generic"
    /\ cfg = BaseConfig
    /\ valid = FALSE /\ optFns = FALSE /\ r = NewRunner /\ dirs = {} /\ made = 0
    /\ calls = <<>> /\ op = "New" /\ ret = Returned("nil")
    /\ vhist = [err |-> "never", dirty |-> FALSE]
    /\ setup = [last |-> "never", ever |-> FALSE]
    /\ nops = 0
    /\ dl = [lst |-> <<>>, src |-> <<>>]
    /\ sq = [pc |-> "none"]
    /\ \E pkg \in {"dirsnapshots", "dirbaks"} :
           bk = [pkg |-> pkg, loaded |-> FALSE, mem |-> [orig \in DirIn.Targets |-> <<>>],
                 n |-> 0,
                 files |-> [config |-> [exists |-> FALSE, doc |-> {}],
                            b |-> [exists |-> FALSE, doc |-> {}]]]

NextBak == BakLoad \/ BakSave \/ BakPushDir \/ BakPopDir

SpecBak == InitBak /\ [][NextBak]_vars

C24_SaveThenLoad ==
    [][(op = "Save" /\ op' = "Load") => bk'.mem = bk.mem]_vars

----------------------------------------------------------------------------
(* Properties of the Runner's lifecycle across repeated calls *)

\* C26: after one or more Setup calls followed by Cleanup, every temporary
\* directory the Runner created has been removed.
C26_NoLeakedTmpDir == op = "Cleanup" => dirs = {}

\* C27: once Cleanup has removed the temporary directory, and until a Setup
\* succeeds again, Start returns ErrNeedInit and no lifecycle method issues
\* a command that names the removed scratch image.
C27_NotReadyAfterCleanup ==
    [][(r.tmpDir # <<>> /\ r.tmpDir \notin dirs /\ nops' = nops + 1 /\ op' # "Setup") =>
           /\ op' = "Start" => ret'.err = "ErrNeedInit"
           /\ \A i \in 1..Len(Issued) :
                  \A j \in 1..Len(Issued[i].args) : Issued[i].args[j] # r.tmpDmg]_vars

\* C28: whenever hdiutil detach is issued for a mount path, a chmod on that
\* same path has succeeded earlier on this Runner.
C28_ChmodOnDetachedPath ==
    \A i \in 1..Len(calls) :
        IsHdiutil(calls[i], Cmd.Detach) =>
            \E j \in 1..(i - 1) :
                /\ calls[j].name = Cmd.Chmod
                /\ calls[j].ok
                /\ calls[j].args[Len(calls[j].args)] = calls[i].args[Len(calls[i].args)]

\* C29: with Simulate unset no chmod, bless or hdiutil detach is issued with
\* an empty mount path.
C29_NoEmptyMountPath ==
    ~cfg.Simulate =>
        \A i \in 1..Len(calls) :
            (calls[i].name \in {Cmd.Chmod, Cmd.Bless} \/ IsHdiutil(calls[i], Cmd.Detach)) =>
                calls[i].args[Len(calls[i].args)] # <<>>

----------------------------------------------------------------------------
(* Properties of the accessors after field assignments *)

\* C30: an accessor that returns without panicking returns the derivation of
\* field values that pass Validate; ImageFormatOpts and FilesystemOpts never
\* return an empty list, also after ImageFormat or FileSystem was set to an
\* unsupported value without a new Validate.
C30_NoSilentWrongAnswer ==
    (op \in OptFnNames /\ ~ret.panic) =>
        /\ ValidateErr(ver, cfg) = "nil"
        /\ ret.val = wrapped(op, cfg)
        /\ op \in {"ImageFormatOpts", "FilesystemOpts"} => ret.val # <<>>

====
